---- MODULE Spec2Model ----
(***************************************************************************)
(* A model of the waveform database: the per-signal change history         *)
(* (src/src/history.rs, src/src/history/block.rs), its iterator and its    *)
(* timestamp search, and the packed vector signal (src/src/vector.rs).     *)
(*                                                                         *)
(* Machine words.  usize and u64 are 64 bits wide.  A word is modelled as  *)
(* four 16-bit limbs, most significant first, so that every operation of   *)
(* the code on a word (wrapping add and subtract, compare, shifts by 7,    *)
(* big-endian byte conversion, leading_zeros) is computed on all 64 bits.  *)
(***************************************************************************)
EXTENDS Integers, Sequences, FiniteSets, TLC

\* ------------------------------------------------------------------ words

LimbBase == 2 ^ 16

\* The word of a small natural number (below 2^31).
W(n) == <<0, 0, n \div LimbBase, n % LimbBase>>

\* 2^k as a word, 0 <= k < 64.
WPow2(k) ==
    LET L(i) == IF 4 - i = k \div 16 THEN 2 ^ (k % 16) ELSE 0
    IN  <<L(1), L(2), L(3), L(4)>>

\* usize wrapping_add (the release build's `+`).
WAdd(a, b) ==
    LET s4 == a[4] + b[4]
        s3 == a[3] + b[3] + s4 \div LimbBase
        s2 == a[2] + b[2] + s3 \div LimbBase
        s1 == a[1] + b[1] + s2 \div LimbBase
    IN  <<s1 % LimbBase, s2 % LimbBase, s3 % LimbBase, s4 % LimbBase>>

\* TRUE iff a + b does not fit in a word.
WAddOverflows(a, b) ==
    LET s4 == a[4] + b[4]
        s3 == a[3] + b[3] + s4 \div LimbBase
        s2 == a[2] + b[2] + s3 \div LimbBase
        s1 == a[1] + b[1] + s2 \div LimbBase
    IN  s1 >= LimbBase

\* usize wrapping_sub (the release build's `-`).
WSub(a, b) ==
    LET d4 == a[4] - b[4]
        b4 == IF d4 < 0 THEN 1 ELSE 0
        d3 == a[3] - b[3] - b4
        b3 == IF d3 < 0 THEN 1 ELSE 0
        d2 == a[2] - b[2] - b3
        b2 == IF d2 < 0 THEN 1 ELSE 0
        d1 == a[1] - b[1] - b2
    IN  <<(d1 + LimbBase) % LimbBase, (d2 + LimbBase) % LimbBase,
          (d3 + LimbBase) % LimbBase, (d4 + LimbBase) % LimbBase>>

\* Unsigned comparison: a < b.
WLt(a, b) ==
    \E i \in 1..4 : a[i] < b[i] /\ \A j \in 1..(i - 1) : a[j] = b[j]

WLe(a, b) == a = b \/ WLt(a, b)

\* x << 7 on a word (the bits shifted out of bit 63 are lost).
WShl7(a) ==
    LET L(i) == (a[i] % 512) * 128 + (IF i < 4 THEN a[i + 1] \div 512 ELSE 0)
    IN  <<L(1), L(2), L(3), L(4)>>

\* x >> 7 on a word.
WShr7(a) ==
    LET L(i) == a[i] \div 128 + (IF i > 1 THEN (a[i - 1] % 128) * 512 ELSE 0)
    IN  <<L(1), L(2), L(3), L(4)>>

\* (x & 127) as a byte.
WLow7(a) == a[4] % 128

\* x | b for a byte b whose bits are clear in x (after x <<= 7, b < 128).
WOrLow7(a, b) == <<a[1], a[2], a[3], (a[4] \div 128) * 128 + b>>

RECURSIVE BitLen(_)
BitLen(x) == IF x = 0 THEN 0 ELSE 1 + BitLen(x \div 2)

\* usize::BITS - x.leading_zeros()
WBitLen(a) ==
    IF a[1] # 0 THEN 48 + BitLen(a[1])
    ELSE IF a[2] # 0 THEN 32 + BitLen(a[2])
    ELSE IF a[3] # 0 THEN 16 + BitLen(a[3])
    ELSE BitLen(a[4])

\* (x as u64).to_be_bytes()
ToBeBytes(a) ==
    <<a[1] \div 256, a[1] % 256, a[2] \div 256, a[2] % 256,
      a[3] \div 256, a[3] % 256, a[4] \div 256, a[4] % 256>>

\* u64::from_be_bytes(b) as usize, b a sequence of 8 bytes
FromBeBytes(b) ==
    <<b[1] * 256 + b[2], b[3] * 256 + b[4], b[5] * 256 + b[6], b[7] * 256 + b[8]>>

\* (x as isize) < 0: bit 63 is set.
WIsNegative(a) == a[1] >= 2 ^ 15

\* -1 as isize
WMinusOne == <<LimbBase - 1, LimbBase - 1, LimbBase - 1, LimbBase - 1>>

\* usize::MAX
WMax == <<LimbBase - 1, LimbBase - 1, LimbBase - 1, LimbBase - 1>>

WZero == W(0)
WOne == W(1)

\* -------------------------------------------------------------- constants

BLOCK_SIZE == 512
MAX_BLOCK_CHANGES == BLOCK_SIZE * 128
HEADER_SIZE == 16

None == [some |-> FALSE]
Some(x) == [some |-> TRUE, val |-> x]

\* What a call that panics gives in place of its value.
Panic == [outcome |-> "panic"]

\* WaveformHistoryIndex
HistoryIndex(t, v) == [timestamp_index |-> t, value_index |-> v]

\* ---------------------------------------------------------------- history

\* WaveformHistory::new
NewHistory ==
    [timestamp_index_last |-> WMinusOne,
     blocks               |-> <<>>,
     block_index          |-> -1,
     block_offset         |-> 16]

RECURSIVE WShr7N(_, _)
WShr7N(a, n) == IF n = 0 THEN a ELSE WShr7N(WShr7(a), n - 1)

\* The number of skip bytes insert_change_block uses for a skip count.
SkipBytes(skips) == (WBitLen(skips) - 1) \div 7 + 1

\* A faulty insert_skips, which asks for room for one skip byte and the
\* change byte whatever the number of skip bytes.
insert_skips_one_byte_room(h, skips, skip_bytes) ==
    IF BLOCK_SIZE - h.block_offset < 1 + 1
    THEN [ok |-> FALSE, h |-> h]
    ELSE [ok |-> TRUE,
          h  |-> [h EXCEPT
              !.blocks =
                  SubSeq(h.blocks, 1, h.block_index * BLOCK_SIZE + h.block_offset)
                  \o [i \in 1..skip_bytes |->
                         WLow7(WShr7N(skips, skip_bytes - i))]
                  \o <<128>>
                  \o SubSeq(h.blocks,
                            h.block_index * BLOCK_SIZE + h.block_offset
                                + skip_bytes + 2,
                            Len(h.blocks)),
              !.block_offset = h.block_offset + skip_bytes + 1]]

\* insert_change_block, skips > 0: the skip bytes, most significant 7-bit
\* group first, and one change byte, if the block has room for them.
insert_skips(h, skips, skip_bytes) ==
    IF BLOCK_SIZE - h.block_offset < skip_bytes + 1
    THEN [ok |-> FALSE, h |-> h]
    ELSE [ok |-> TRUE,
          h  |-> [h EXCEPT
              !.blocks =
                  SubSeq(h.blocks, 1, h.block_index * BLOCK_SIZE + h.block_offset)
                  \o [i \in 1..skip_bytes |->
                         WLow7(WShr7N(skips, skip_bytes - i))]
                  \o <<128>>
                  \o SubSeq(h.blocks,
                            h.block_index * BLOCK_SIZE + h.block_offset
                                + skip_bytes + 2,
                            Len(h.blocks)),
              !.block_offset = h.block_offset + skip_bytes + 1]]

\* insert_change_block, skips = 0: one more change in the last change byte,
\* or a new change byte, if the block has room for it.  index is the
\* source's index (from 0); byte index - 1 is element index of blocks.
insert_run(h, index) ==
    IF h.blocks[index] < 255
    THEN [ok |-> TRUE, h |-> [h EXCEPT !.blocks[index] = h.blocks[index] + 1]]
    ELSE IF h.block_offset < BLOCK_SIZE
    THEN [ok |-> TRUE,
          h  |-> [h EXCEPT !.blocks[index + 1] = 128,
                           !.block_offset = h.block_offset + 1]]
    ELSE [ok |-> FALSE, h |-> h]

\* WaveformHistory::insert_change_block: [ok, h], ok = FALSE when the
\* change does not fit in the current block (h is then unchanged).
insert_change_block(h, timestamp_index_diff) ==
    LET write(skips) ==
            IF skips # WZero
            THEN insert_skips(h, skips, SkipBytes(skips))
            ELSE insert_run(h, h.block_index * BLOCK_SIZE + h.block_offset)
    IN  write(WSub(timestamp_index_diff, WOne))

\* WaveformHistory::insert_block
insert_block(h, timestamp_index, value_index) ==
    [h EXCEPT
        !.blocks = h.blocks \o ToBeBytes(timestamp_index)
                            \o ToBeBytes(value_index)
                            \o <<128>>
                            \o [k \in 1..(BLOCK_SIZE - HEADER_SIZE - 1) |-> 0],
        !.block_index = h.block_index + 1,
        !.block_offset = HEADER_SIZE + 1]

\* WaveformHistory::add_change: [outcome, h].  outcome = "panic" is the
\* panic!() on a duplicated timestamp index, or that of
\* `timestamp_index - timestamp_index_last` on a timestamp index below the
\* last one with overflow checks (without them the difference wraps); the
\* history is then as before.  timestamp_index_last is an isize: the test
\* `>= 0` is on bit 63.
add_change(h, timestamp_index, value_index, overflow_checks) ==
    LET set_last(g) == [g EXCEPT !.timestamp_index_last = timestamp_index]
        new_block == insert_block(h, timestamp_index, value_index)
        inserted(r) == IF r.ok THEN r.h ELSE new_block
    IN  IF ~WIsNegative(h.timestamp_index_last)
        THEN IF timestamp_index = h.timestamp_index_last
                \/ (overflow_checks
                       /\ WLt(timestamp_index, h.timestamp_index_last))
             THEN [outcome |-> "panic", h |-> h]
             ELSE [outcome |-> "ok",
                   h |-> set_last(inserted(insert_change_block(
                             h, WSub(timestamp_index, h.timestamp_index_last))))]
        ELSE [outcome |-> "ok", h |-> set_last(new_block)]

\* WaveformHistory::get_block_count
get_block_count(h) == Len(h.blocks) \div BLOCK_SIZE

\* WaveformHistory::get_block: the 512 bytes of block block_index, indexed
\* from 1 (byte i of the source is element i + 1).
get_block(h, block_index) ==
    SubSeq(h.blocks, block_index * BLOCK_SIZE + 1, (block_index + 1) * BLOCK_SIZE)

\* WaveformHistoryBlock::get_timestamp_index / get_value_index / get_index
get_timestamp_index(block) == FromBeBytes(SubSeq(block, 1, 8))
get_value_index(block) == FromBeBytes(SubSeq(block, 9, 16))
get_index(block) == HistoryIndex(get_timestamp_index(block), get_value_index(block))

\* ------------------------------------------------------------ block decoder

\* Loops.  A `loop` or `for` of the source is modelled by its body, one
\* iteration on a record s of the loop's variables in which s.done is set by
\* the iteration that leaves the loop, and by a runner that applies the body
\* until s.done, at most n times (no loop below runs longer than its n).  A
\* runner applies the iterations in two halves, which keeps the evaluation
\* shallow.
\*
\* Builds.  overflow_checks is TRUE for a build with overflow checks and
\* debug assertions (the dev and test profiles) and FALSE for one with
\* neither (the release profile).  With it, an addition or a subtraction
\* that leaves the machine word and a failed debug_assert! panic: the call
\* gives Panic.  Without it, the arithmetic wraps and the assertions are
\* not compiled.

\* One iteration of the `for i in offset..BLOCK_SIZE` of get_skips.  A block
\* has fewer than 64 groups of eight skip bytes, each below 2^56, so that
\* `skips += skips_partial` stays below 2^62.
get_skips_body(block, s) ==
    LET shifted(partial) ==
            IF (s.skip_bytes + 1) % 8 = 0
            THEN [i |-> s.i + 1, skip_bytes |-> s.skip_bytes + 1,
                  skips |-> WAdd(s.skips, partial), skips_partial |-> WZero,
                  done |-> FALSE]
            ELSE [i |-> s.i + 1, skip_bytes |-> s.skip_bytes + 1,
                  skips |-> s.skips, skips_partial |-> partial,
                  done |-> FALSE]
    IN  IF s.i >= BLOCK_SIZE \/ block[s.i + 1] >= 128
        THEN [s EXCEPT !.done = TRUE]
        ELSE shifted(WOrLow7(WShl7(s.skips_partial), block[s.i + 1]))

RECURSIVE get_skips_run(_, _, _)
get_skips_run(block, s, n) ==
    IF n = 0 \/ s.done THEN s
    ELSE IF n = 1 THEN get_skips_body(block, s)
    ELSE get_skips_run(block, get_skips_run(block, s, n \div 2), n - n \div 2)

\* WaveformHistoryBlock::get_skips: [skip_bytes, skips], or Panic where a
\* debug assertion fails: on an offset inside the header, and on skip bytes
\* that end before the end of the block and add up to no skip.
get_skips(block, offset, overflow_checks) ==
    LET result(s) ==
            IF overflow_checks
               /\ WAdd(s.skips, s.skips_partial) = WZero
               /\ offset + s.skip_bytes # BLOCK_SIZE
               /\ s.skip_bytes # 0
            THEN Panic
            ELSE [skip_bytes |-> s.skip_bytes,
                  skips |-> WAdd(s.skips, s.skips_partial)]
    IN  IF overflow_checks /\ offset < 16
        THEN Panic
        ELSE result(get_skips_run(block,
                        [i |-> offset, skip_bytes |-> 0, skips |-> WZero,
                         skips_partial |-> WZero, done |-> FALSE],
                        BLOCK_SIZE + 1))

\* The decoder state of a block iterator at the block's start
\* (IntoIterator for WaveformHistoryBlock).
block_into_iter(block) ==
    [index |-> get_index(block), offset |-> HEADER_SIZE, consumed_changes |-> 0]

\* next_index: [res, st], st the decoder state [index, offset,
\* consumed_changes] the call leaves behind, or Panic.  One evaluation is
\* one iteration of the source's loop: offset and index are the values after
\* the waiting skip bytes have been consumed.  The index is moved past the
\* change that is returned (`index.value_index += 1`,
\* `index.timestamp_index += 1`), which overflows on a change at usize::MAX.
\* The debug_assert! on the byte at offset cannot fail: get_skips stops at
\* a change byte or at the end of the block.  consumed_changes stays at
\* most 128.
RECURSIVE next_index(_, _, _)
next_index_at(block, st, offset, index, overflow_checks) ==
    IF offset >= BLOCK_SIZE
    THEN [res |-> None, st |-> [st EXCEPT !.index = index, !.offset = offset]]
    ELSE IF st.consumed_changes < (block[offset + 1] % 128) + 1
    THEN IF overflow_checks
            /\ (WAddOverflows(index.value_index, WOne)
                   \/ WAddOverflows(index.timestamp_index, WOne))
         THEN Panic
         ELSE [res |-> Some(index),
               st  |-> [index |-> HistoryIndex(
                                      WAdd(index.timestamp_index, WOne),
                                      WAdd(index.value_index, WOne)),
                        offset |-> offset,
                        consumed_changes |-> st.consumed_changes + 1]]
    ELSE next_index(block,
                    [index |-> index, offset |-> offset + 1,
                     consumed_changes |-> 0],
                    overflow_checks)

next_index(block, st, overflow_checks) ==
    LET skipped(sk) ==
            IF sk = Panic
            THEN Panic
            ELSE IF overflow_checks
                    /\ WAddOverflows(st.index.timestamp_index, sk.skips)
            THEN Panic
            ELSE next_index_at(block, st, st.offset + sk.skip_bytes,
                     [st.index EXCEPT
                         !.timestamp_index =
                             WAdd(st.index.timestamp_index, sk.skips)],
                     overflow_checks)
    IN  skipped(get_skips(block, st.offset, overflow_checks))

\* One iteration of the loop of seek_index: s.st is the decoder state,
\* s.last_index the last index found, s.res the value returned, s.panic
\* whether next_index panicked.
seek_index_body(block, timestamp_index, overflow_checks, s) ==
    LET compare(n) ==
            IF n = Panic
            THEN [s EXCEPT !.panic = TRUE, !.done = TRUE]
            ELSE IF ~n.res.some
            THEN [s EXCEPT !.res = s.last_index, !.done = TRUE]
            ELSE IF WLt(timestamp_index, n.res.val.timestamp_index)
            THEN [s EXCEPT !.res = s.last_index, !.done = TRUE]
            ELSE IF n.res.val.timestamp_index = timestamp_index
            THEN [s EXCEPT !.st = n.st, !.res = n.res, !.done = TRUE]
            ELSE [s EXCEPT !.st = n.st, !.last_index = n.res]
    IN  compare(next_index(block, s.st, overflow_checks))

RECURSIVE seek_index_run(_, _, _, _, _)
seek_index_run(block, timestamp_index, overflow_checks, s, n) ==
    IF n = 0 \/ s.done THEN s
    ELSE IF n = 1 THEN seek_index_body(block, timestamp_index, overflow_checks, s)
    ELSE seek_index_run(block, timestamp_index, overflow_checks,
                        seek_index_run(block, timestamp_index, overflow_checks,
                                       s, n \div 2),
                        n - n \div 2)

\* seek_index: [res, st], or Panic
seek_index(block, st, timestamp_index, overflow_checks) ==
    LET result(s) == IF s.panic THEN Panic ELSE [res |-> s.res, st |-> s.st]
    IN  result(seek_index_run(block, timestamp_index, overflow_checks,
                   [st |-> st, last_index |-> None, res |-> None,
                    panic |-> FALSE, done |-> FALSE],
                   MAX_BLOCK_CHANGES))

\* One step of collect() on a block iterator: s.out are the pairs so far.
block_collect_body(block, overflow_checks, s) ==
    LET push(n) ==
            IF n = Panic
            THEN [s EXCEPT !.panic = TRUE, !.done = TRUE]
            ELSE IF n.res.some
            THEN [s EXCEPT !.st = n.st, !.out = Append(s.out, n.res.val)]
            ELSE [s EXCEPT !.done = TRUE]
    IN  push(next_index(block, s.st, overflow_checks))

RECURSIVE block_collect_run(_, _, _, _)
block_collect_run(block, overflow_checks, s, n) ==
    IF n = 0 \/ s.done THEN s
    ELSE IF n = 1 THEN block_collect_body(block, overflow_checks, s)
    ELSE block_collect_run(block, overflow_checks,
                           block_collect_run(block, overflow_checks, s,
                                             n \div 2),
                           n - n \div 2)

\* collect() on the block iterator: [outcome, res], res all the pairs the
\* iterator yields from decoder state st on, or Panic.
block_collect(block, st, overflow_checks) ==
    LET result(s) == IF s.panic THEN Panic
                     ELSE [outcome |-> "ok", res |-> s.out]
    IN  result(block_collect_run(block, overflow_checks,
                   [st |-> st, out |-> <<>>, panic |-> FALSE, done |-> FALSE],
                   MAX_BLOCK_CHANGES))

\* --------------------------------------------------------- history iterator

\* IntoIterator for &WaveformHistory.  get_block(0) slices the byte array
\* and panics on a history without a block.
into_iter(h) ==
    IF get_block_count(h) = 0
    THEN Panic
    ELSE [block_index |-> 0, blk |-> 0,
          st |-> block_into_iter(get_block(h, 0))]

\* WaveformHistoryIter::next_block.  blk is the block that block_iter
\* borrows; it stays the old one when block_index runs past the last block.
next_block(h, it) ==
    IF it.block_index + 1 < get_block_count(h)
    THEN [block_index |-> it.block_index + 1, blk |-> it.block_index + 1,
          st |-> block_into_iter(get_block(h, it.block_index + 1))]
    ELSE [it EXCEPT !.block_index = it.block_index + 1]

\* WaveformHistoryIter::next: [res, it], or Panic
RECURSIVE iter_next(_, _, _)
iter_next(h, it, overflow_checks) ==
    LET yield(n) ==
            IF n = Panic
            THEN Panic
            ELSE IF n.res.some
            THEN [res |-> n.res, it |-> [it EXCEPT !.st = n.st]]
            ELSE iter_next(h, next_block(h, [it EXCEPT !.st = n.st]),
                           overflow_checks)
    IN  IF it.block_index >= get_block_count(h)
        THEN [res |-> None, it |-> it]
        ELSE yield(next_index(get_block(h, it.blk), it.st, overflow_checks))

\* The loop of WaveformHistoryIter::seek.
RECURSIVE iter_seek_loop(_, _, _, _, _, _)
iter_seek_loop(h, it, timestamp_index, last_it, last_index, overflow_checks) ==
    LET found(r) ==
            IF r = Panic
            THEN Panic
            ELSE IF r.res.some
            THEN iter_seek_loop(h, next_block(h, [it EXCEPT !.st = r.st]),
                                timestamp_index, [it EXCEPT !.st = r.st], r.res,
                                overflow_checks)
            ELSE [res |-> last_index, it |-> last_it]
    IN  IF it.block_index >= get_block_count(h)
        THEN [res |-> last_index, it |-> last_it]
        ELSE found(seek_index(get_block(h, it.blk), it.st, timestamp_index,
                              overflow_checks))

\* WaveformHistoryIter::seek: [res, it], or Panic
iter_seek(h, it, timestamp_index, overflow_checks) ==
    iter_seek_loop(h, it, timestamp_index, it, None, overflow_checks)

\* One step of `for index in history.into_iter()`: s.out are the pairs so far.
iter_collect_body(h, overflow_checks, s) ==
    LET push(n) ==
            IF n = Panic
            THEN [s EXCEPT !.panic = TRUE, !.done = TRUE]
            ELSE IF n.res.some
            THEN [s EXCEPT !.it = n.it, !.out = Append(s.out, n.res.val)]
            ELSE [s EXCEPT !.done = TRUE]
    IN  push(iter_next(h, s.it, overflow_checks))

RECURSIVE iter_collect_run(_, _, _, _)
iter_collect_run(h, overflow_checks, s, n) ==
    IF n = 0 \/ s.done THEN s
    ELSE IF n = 1 THEN iter_collect_body(h, overflow_checks, s)
    ELSE iter_collect_run(h, overflow_checks,
                          iter_collect_run(h, overflow_checks, s, n \div 2),
                          n - n \div 2)

\* [outcome, res], res every pair the iterator yields from state it on, in
\* order, or Panic; it is Panic where into_iter panicked.
iter_collect(h, it, overflow_checks) ==
    LET result(s) == IF s.panic THEN Panic
                     ELSE [outcome |-> "ok", res |-> s.out]
    IN  IF it = Panic
        THEN Panic
        ELSE result(iter_collect_run(h, overflow_checks,
                        [it |-> it, out |-> <<>>, panic |-> FALSE,
                         done |-> FALSE],
                        get_block_count(h) * MAX_BLOCK_CHANGES + 1))

\* ------------------------------------------------------------------ search

SearchModes == {"Before", "After", "Closest", "Exact"}

\* The binary search loop of search_timestamp_block_index: [found, start,
\* end]; start and end are usize in the source and never leave 0..count here
\* because the caller has excluded a target below the first header.
RECURSIVE block_search_loop(_, _, _, _)
block_search_loop(h, timestamp_index, start, end) ==
    LET probe(mid, mid_value) ==
            IF WLt(timestamp_index, mid_value)
            THEN block_search_loop(h, timestamp_index, start, mid - 1)
            ELSE IF WLt(mid_value, timestamp_index)
            THEN block_search_loop(h, timestamp_index, mid + 1, end)
            ELSE [found |-> Some(mid), start |-> start, end |-> end]
    IN  IF start > end
        THEN [found |-> None, start |-> start, end |-> end]
        ELSE probe((start + end) \div 2,
                   get_timestamp_index(get_block(h, (start + end) \div 2)))

\* The match on search_mode that ends search_timestamp_block_index, r the
\* result of the loop.  In mode Closest get_block(start) panics when start
\* is past the last block, and so does a subtraction that underflows.
block_search_pick(h, timestamp_index, search_mode, overflow_checks, r) ==
    LET nearer(start_value, end_value) ==
            IF overflow_checks
               /\ (WLt(start_value, timestamp_index)
                      \/ WLt(timestamp_index, end_value))
            THEN Panic
            ELSE IF WLt(WSub(start_value, timestamp_index),
                        WSub(timestamp_index, end_value))
            THEN Some(r.start)
            ELSE Some(r.end)
    IN  IF r.found.some THEN r.found
        ELSE CASE search_mode = "Exact"  -> None
               [] search_mode = "Before" -> Some(r.end)
               [] search_mode = "After"  -> Some(r.start)
               [] OTHER ->
                    IF r.start >= get_block_count(h)
                    THEN Panic
                    ELSE nearer(get_timestamp_index(get_block(h, r.start)),
                                get_timestamp_index(get_block(h, r.end)))

\* A faulty search_timestamp_block_index, which finds no block for a target
\* beyond the last header by more than MAX_BLOCK_CHANGES, whatever the mode.
search_timestamp_block_index_bounded(h, timestamp_index, search_mode, overflow_checks) ==
    LET last_value == get_timestamp_index(get_block(h, get_block_count(h) - 1))
    IN  IF get_block_count(h) = 0
        THEN Panic
        ELSE IF WLt(timestamp_index, get_timestamp_index(get_block(h, 0)))
        THEN IF search_mode \in {"Exact", "Before"} THEN None ELSE Some(0)
        ELSE IF overflow_checks
                /\ WAddOverflows(last_value, W(MAX_BLOCK_CHANGES))
        THEN Panic
        ELSE IF WLt(WAdd(last_value, W(MAX_BLOCK_CHANGES)), timestamp_index)
        THEN None
        ELSE block_search_pick(h, timestamp_index, search_mode,
                 overflow_checks,
                 block_search_loop(h, timestamp_index, 0,
                                   get_block_count(h) - 1))

\* WaveformHistory::search_timestamp_block_index: an Option of a block
\* index, or Panic.  On a history without a block `get_block_count() - 1`
\* overflows or, where it wraps, get_block(0) slices an empty array.  The
\* sum of the last header and MAX_BLOCK_CHANGES overflows for a last header
\* within MAX_BLOCK_CHANGES of usize::MAX.
search_timestamp_block_index(h, timestamp_index, search_mode, overflow_checks) ==
    LET last_value == get_timestamp_index(get_block(h, get_block_count(h) - 1))
    IN  IF get_block_count(h) = 0
        THEN Panic
        ELSE IF WLt(timestamp_index, get_timestamp_index(get_block(h, 0)))
        THEN IF search_mode \in {"Exact", "Before"} THEN None ELSE Some(0)
        ELSE IF overflow_checks
                /\ WAddOverflows(last_value, W(MAX_BLOCK_CHANGES))
        THEN Panic
        ELSE IF WLt(WAdd(last_value, W(MAX_BLOCK_CHANGES)), timestamp_index)
        THEN IF search_mode \in {"Exact", "After"} THEN None
             ELSE Some(get_block_count(h) - 1)
        ELSE block_search_pick(h, timestamp_index, search_mode,
                 overflow_checks,
                 block_search_loop(h, timestamp_index, 0,
                                   get_block_count(h) - 1))

\* The first index of block block_index (next() on a new block iterator):
\* an Option of a HistoryIndex, or Panic.
first_index(h, block_index, overflow_checks) ==
    LET first(n) == IF n = Panic THEN Panic ELSE n.res
    IN  first(next_index(get_block(h, block_index),
                         block_into_iter(get_block(h, block_index)),
                         overflow_checks))

\* The match on search_mode that ends search_timestamp_index: an Option of
\* a HistoryIndex, or Panic where a subtraction underflows.
search_select(timestamp_index, search_mode, index_before, index_after, overflow_checks) ==
    CASE search_mode = "Before" -> Some(index_before)
      [] search_mode = "After"  -> index_after
      [] search_mode = "Closest" ->
           IF ~index_after.some
           THEN Some(index_before)
           ELSE IF overflow_checks
                   /\ (WLt(index_after.val.timestamp_index, timestamp_index)
                          \/ WLt(timestamp_index, index_before.timestamp_index))
           THEN Panic
           ELSE IF WLt(WSub(index_after.val.timestamp_index, timestamp_index),
                       WSub(timestamp_index, index_before.timestamp_index))
           THEN index_after
           ELSE Some(index_before)
      [] OTHER -> None

\* search_timestamp_index once the block is known.  The index after is
\* looked up in every mode, once the index before is known not to be at
\* the timestamp index.
search_block(h, timestamp_index, search_mode, block_index, overflow_checks) ==
    LET after(nx) ==
            IF nx = Panic THEN Panic
            ELSE IF nx.res.some THEN nx.res
            ELSE IF block_index + 1 < get_block_count(h)
            THEN first_index(h, block_index + 1, overflow_checks)
            ELSE None
        selected(index_before, index_after) ==
            IF index_after = Panic
            THEN Panic
            ELSE search_select(timestamp_index, search_mode, index_before,
                               index_after, overflow_checks)
        sought(sk) ==
            IF sk = Panic
            THEN Panic
            ELSE IF ~sk.res.some
            THEN IF search_mode \in {"After", "Closest"}
                 THEN first_index(h, 0, overflow_checks)
                 ELSE None
            ELSE IF sk.res.val.timestamp_index = timestamp_index
            THEN sk.res
            ELSE selected(sk.res.val,
                          after(next_index(get_block(h, block_index), sk.st,
                                           overflow_checks)))
    IN  sought(seek_index(get_block(h, block_index),
                          block_into_iter(get_block(h, block_index)),
                          timestamp_index, overflow_checks))

\* WaveformHistory::search_timestamp_index: an Option of a HistoryIndex, or
\* Panic.  The block is always looked up with mode Before.
search_timestamp_index(h, timestamp_index, search_mode, overflow_checks) ==
    LET found(b) ==
            IF b = Panic THEN Panic
            ELSE IF ~b.some THEN None
            ELSE search_block(h, timestamp_index, search_mode, b.val,
                              overflow_checks)
    IN  found(search_timestamp_block_index(h, timestamp_index, "Before",
                                           overflow_checks))

\* --------------------------------------------------- WaveformSignalHistory
\* WaveformSignalHistory has the fields of WaveformHistory and the same
\* block layout: sixteen header bytes, then skip bytes (below 128) and
\* change bytes (128 + changes - 1).

\* WaveformSignalHistory::new
WaveformSignalHistory_new ==
    [timestamp_index_last |-> WMinusOne,
     blocks               |-> <<>>,
     block_index          |-> -1,
     block_offset         |-> 16]

\* WaveformSignalHistory::insert_change: [ok, h].  Its two arms are,
\* statement for statement, those of WaveformHistory::insert_change_block:
\* the skip bytes and a change byte, or one more change in the last change
\* byte (a new change byte when it is full).
insert_change(h, timestamp_index_diff) ==
    LET write(skips) ==
            IF skips # WZero
            THEN insert_skips(h, skips, SkipBytes(skips))
            ELSE insert_run(h, h.block_index * BLOCK_SIZE + h.block_offset)
    IN  write(WSub(timestamp_index_diff, WOne))

\* WaveformSignalHistory::insert_block
WaveformSignalHistory_insert_block(h, timestamp_index, value_index) ==
    [h EXCEPT
        !.blocks = h.blocks \o ToBeBytes(timestamp_index)
                            \o ToBeBytes(value_index)
                            \o <<128>>
                            \o [k \in 1..(BLOCK_SIZE - 17) |-> 0],
        !.block_index = h.block_index + 1,
        !.block_offset = 17]

\* WaveformSignalHistory::update_block: [outcome, h], outcome = "panic" on
\* a duplicated timestamp index and, with overflow checks, on one below the
\* last (`timestamp_index - timestamp_index_last`, which wraps without
\* them).  timestamp_index_last is an isize.
update_block(h, timestamp_index, value_index, overflow_checks) ==
    LET set_last(g) == [g EXCEPT !.timestamp_index_last = timestamp_index]
        new_block == WaveformSignalHistory_insert_block(h, timestamp_index,
                                                        value_index)
        inserted(r) == IF r.ok THEN r.h ELSE new_block
    IN  IF ~WIsNegative(h.timestamp_index_last)
        THEN IF timestamp_index = h.timestamp_index_last
                \/ (overflow_checks
                       /\ WLt(timestamp_index, h.timestamp_index_last))
             THEN [outcome |-> "panic", h |-> h]
             ELSE [outcome |-> "ok",
                   h |-> set_last(inserted(insert_change(
                             h, WSub(timestamp_index, h.timestamp_index_last))))]
        ELSE [outcome |-> "ok", h |-> set_last(new_block)]

\* WaveformSignalHistory::get_timestamp_index / get_value_index (of the
\* block block_index) / get_block_count
WaveformSignalHistory_get_timestamp_index(h, block_index) ==
    FromBeBytes(SubSeq(h.blocks, block_index * BLOCK_SIZE + 1,
                       block_index * BLOCK_SIZE + 8))

WaveformSignalHistory_get_value_index(h, block_index) ==
    FromBeBytes(SubSeq(h.blocks, block_index * BLOCK_SIZE + 9,
                       block_index * BLOCK_SIZE + 16))

WaveformSignalHistory_get_block_count(h) == Len(h.blocks) \div BLOCK_SIZE

\* WaveformSignalIndex::from_history
from_history(h, block_index) ==
    [timestamp_index |-> WaveformSignalHistory_get_timestamp_index(h, block_index),
     value_index     |-> WaveformSignalHistory_get_value_index(h, block_index)]

\* WaveformSignalPosition: [index, block_index, block_offset,
\* consumed_changes].  get_byte_index is an index from 0: byte i of blocks
\* is element i + 1.
get_byte_index(pos) == pos.block_index * BLOCK_SIZE + pos.block_offset

\* One iteration of the `while` of consume_skips; s.pos is self.
consume_skips_body(h, s) ==
    LET flushed(word) ==
            IF s.i + 1 >= 8
            THEN [pos |-> [s.pos EXCEPT !.block_offset = s.pos.block_offset + 1],
                  total_skips |-> WAdd(s.total_skips, word),
                  skip_word |-> WZero, i |-> s.i + 1, done |-> FALSE]
            ELSE [pos |-> [s.pos EXCEPT !.block_offset = s.pos.block_offset + 1],
                  total_skips |-> s.total_skips,
                  skip_word |-> word, i |-> s.i + 1, done |-> FALSE]
    IN  IF s.pos.block_offset < BLOCK_SIZE
           /\ h.blocks[get_byte_index(s.pos) + 1] < 128
        THEN flushed(WOrLow7(WShl7(s.skip_word),
                             h.blocks[get_byte_index(s.pos) + 1] % 128))
        ELSE [s EXCEPT !.done = TRUE]

RECURSIVE consume_skips_run(_, _, _)
consume_skips_run(h, s, n) ==
    IF n = 0 \/ s.done THEN s
    ELSE IF n = 1 THEN consume_skips_body(h, s)
    ELSE consume_skips_run(h, consume_skips_run(h, s, n \div 2), n - n \div 2)

\* WaveformSignalPosition::consume_skips: [pos, skips], pos being self
\* after the call and skips the value returned.
consume_skips(pos, h) ==
    LET result(s) == [pos |-> s.pos, skips |-> WAdd(s.total_skips, s.skip_word)]
    IN  result(consume_skips_run(h,
                   [pos |-> pos, total_skips |-> WZero, skip_word |-> WZero,
                    i |-> 0, done |-> FALSE],
                   BLOCK_SIZE + 1))

\* WaveformSignalPosition::consume_initial: [pos, ok]
consume_initial(pos, h) ==
    LET result(r) ==
            [pos |-> [r.pos EXCEPT !.index.timestamp_index =
                                       WAdd(r.pos.index.timestamp_index, r.skips)],
             ok  |-> r.pos.block_offset < BLOCK_SIZE]
    IN  result(consume_skips([pos EXCEPT
                                 !.index = from_history(h, pos.block_index),
                                 !.block_offset = 16,
                                 !.consumed_changes = 0],
                             h))

\* One iteration of the `loop` of block_seek; s.next is next.  The change
\* byte read for available_changes is the one at self's byte index, not at
\* next's.  `available_changes - next.consumed_changes` is a subtraction
\* of usizes: where next has consumed more changes than that byte holds it
\* panics with overflow checks (s.panic) and wraps without them, and
\* `requested_changes as u8` keeps the low eight bits, added to a u8.
block_seek_body(self, timestamp_index, h, overflow_checks, s) ==
    LET available_changes == (h.blocks[get_byte_index(self) + 1] % 128) + 1
        changes(next) ==
            LET requested_changes == WSub(timestamp_index,
                                          next.index.timestamp_index)
            IN  IF next.consumed_changes > available_changes /\ overflow_checks
                THEN [next |-> next, done |-> TRUE, panic |-> TRUE]
                ELSE IF WLt(requested_changes,
                            WSub(W(available_changes), W(next.consumed_changes)))
                THEN [next |-> [next EXCEPT
                          !.consumed_changes =
                              (next.consumed_changes
                                   + (requested_changes[4] % 256)) % 256,
                          !.index.timestamp_index =
                              WAdd(next.index.timestamp_index, requested_changes),
                          !.index.value_index =
                              WAdd(next.index.value_index, requested_changes)],
                      done |-> TRUE, panic |-> FALSE]
                ELSE [next |-> [next EXCEPT
                          !.block_offset = next.block_offset + 1,
                          !.consumed_changes = 0,
                          !.index.timestamp_index =
                              WAdd(next.index.timestamp_index,
                                   W(available_changes - 1)),
                          !.index.value_index =
                              WAdd(next.index.value_index,
                                   W(available_changes - 1))],
                      done |-> FALSE, panic |-> FALSE]
        skipped(r) ==
            IF WLt(timestamp_index, WAdd(r.pos.index.timestamp_index, r.skips))
            THEN [next |-> r.pos, done |-> TRUE, panic |-> FALSE]
            ELSE IF r.pos.block_offset >= BLOCK_SIZE
            THEN [next |-> [r.pos EXCEPT !.index.timestamp_index =
                                WAdd(r.pos.index.timestamp_index, r.skips)],
                  done |-> TRUE, panic |-> FALSE]
            ELSE changes([r.pos EXCEPT !.index.timestamp_index =
                              WAdd(r.pos.index.timestamp_index, r.skips)])
    IN  skipped(consume_skips(s.next, h))

RECURSIVE block_seek_run(_, _, _, _, _, _)
block_seek_run(self, timestamp_index, h, overflow_checks, s, n) ==
    IF n = 0 \/ s.done THEN s
    ELSE IF n = 1
    THEN block_seek_body(self, timestamp_index, h, overflow_checks, s)
    ELSE block_seek_run(self, timestamp_index, h, overflow_checks,
                        block_seek_run(self, timestamp_index, h,
                                       overflow_checks, s, n \div 2),
                        n - n \div 2)

\* WaveformSignalPosition::block_seek: the position returned, or
\* [outcome |-> "panic"].
block_seek(self, timestamp_index, h, overflow_checks) ==
    LET result(s) == IF s.panic THEN [outcome |-> "panic"] ELSE s.next
    IN  result(block_seek_run(self, timestamp_index, h, overflow_checks,
                              [next |-> self, done |-> FALSE, panic |-> FALSE],
                              BLOCK_SIZE + 1))

\* WaveformSignalHistory::search_timestamp_index_recursive on the block
\* range start..end: None, Some(position) or [outcome |-> "panic"].
RECURSIVE search_timestamp_index_recursive(_, _, _, _, _)
search_timestamp_index_recursive(h, timestamp_index, start, end, overflow_checks) ==
    LET block_mid == (start + end) \div 2
        seeked(pos) ==
            IF pos = [outcome |-> "panic"] THEN pos ELSE Some(pos)
        sought(pos) ==
            IF WLt(timestamp_index, pos.index.timestamp_index) THEN None
            ELSE IF pos.index.timestamp_index = timestamp_index THEN Some(pos)
            ELSE seeked(block_seek(pos, timestamp_index, h, overflow_checks))
        initial(r) ==
            IF ~r.ok THEN None
            ELSE sought([r.pos EXCEPT !.consumed_changes = 1])
    IN  IF end <= start THEN None
        ELSE IF WLt(timestamp_index,
                    WaveformSignalHistory_get_timestamp_index(h, start))
        THEN None
        ELSE IF end - start > 1
        THEN IF WLt(timestamp_index,
                    WaveformSignalHistory_get_timestamp_index(h, block_mid))
             THEN search_timestamp_index_recursive(h, timestamp_index,
                                                   start, block_mid,
                                                   overflow_checks)
             ELSE search_timestamp_index_recursive(h, timestamp_index,
                                                   block_mid, end,
                                                   overflow_checks)
        ELSE initial(consume_initial(
                 [index |-> [timestamp_index |-> WZero, value_index |-> WZero],
                  block_index |-> start, block_offset |-> 0,
                  consumed_changes |-> 0],
                 h))

\* WaveformSignalHistory::search_timestamp_index
WaveformSignalHistory_search_timestamp_index(h, timestamp_index, overflow_checks) ==
    search_timestamp_index_recursive(h, timestamp_index, 0,
                                     WaveformSignalHistory_get_block_count(h),
                                     overflow_checks)

\* ---------------------------------------------------------- machine words
\* The usize of BitVector is a function from 1..64 to {0, 1}, bit i of the
\* word at i + 1; a u8 is a number below 256.

WordBits == 64
HalfWordBits == 32

UZero == [i \in 1..WordBits |-> 0]

BitOf(n, i) == (n \div (2 ^ i)) % 2

\* `b as usize` of a u8
UFromByte(b) == [i \in 1..WordBits |-> IF i <= 8 THEN BitOf(b, i - 1) ELSE 0]

\* `w as u8`
ULowByte(w) ==
    w[1] + 2 * w[2] + 4 * w[3] + 8 * w[4]
         + 16 * w[5] + 32 * w[6] + 64 * w[7] + 128 * w[8]

UShl(w, k) == [i \in 1..WordBits |-> IF i > k THEN w[i - k] ELSE 0]
UShr(w, k) == [i \in 1..WordBits |-> IF i + k <= WordBits THEN w[i + k] ELSE 0]
UAnd(a, b) == [i \in 1..WordBits |-> a[i] * b[i]]
UOr(a, b) == [i \in 1..WordBits |-> IF a[i] + b[i] > 0 THEN 1 ELSE 0]

HALF_WORD_MASK == [i \in 1..WordBits |-> IF i <= HalfWordBits THEN 1 ELSE 0]

\* usize::to_be_bytes and usize::from_be_bytes
UToBeBytes(w) == [k \in 1..8 |-> ULowByte(UShr(w, 8 * (8 - k)))]
UFromBeBytes(bytes) ==
    [i \in 1..WordBits |-> BitOf(bytes[8 - (i - 1) \div 8], (i - 1) % 8)]

\* a | b and a & b of two u8
ByteOr(a, b) == ULowByte(UOr(UFromByte(a), UFromByte(b)))
ByteAnd(a, b) == ULowByte(UAnd(UFromByte(a), UFromByte(b)))

Zeros(n) == [i \in 1..n |-> 0]

\* --------------------------------------------------------------- BitVector
\* A BitVector is [bit_width, four_state, pointer, payload]: the three parts
\* of its size word, and its payload, which is a word if pointer is FALSE
\* and the words of the heap array if it is TRUE.

\* The words clone_be_bytes_to_usizes writes, from word 0 on.
RECURSIVE clone_be_bytes_to_usizes(_, _)
clone_be_bytes_to_usizes(bytes, byte_index) ==
    IF byte_index <= 8
    THEN <<UFromBeBytes(Zeros(8 - byte_index) \o SubSeq(bytes, 1, byte_index))>>
    ELSE <<UFromBeBytes(SubSeq(bytes, byte_index - 7, byte_index))>>
         \o clone_be_bytes_to_usizes(bytes, byte_index - 8)

\* The bytes clone_usizes_to_be_bytes writes from the words at ptr on.
RECURSIVE clone_usizes_to_be_bytes(_, _, _)
clone_usizes_to_be_bytes(ptr, ptr_index, byte_index) ==
    IF byte_index <= 8
    THEN SubSeq(UToBeBytes(ptr[ptr_index + 1]), 8 - byte_index + 1, 8)
    ELSE clone_usizes_to_be_bytes(ptr, ptr_index + 1, byte_index - 8)
         \o UToBeBytes(ptr[ptr_index + 1])

\* BitVector::new
BitVector_new(bit_width, four_state) ==
    IF four_state
    THEN IF bit_width * 2 > WordBits
         THEN [bit_width |-> bit_width, four_state |-> TRUE, pointer |-> TRUE,
               payload |-> [k \in 1..((((bit_width - 1) \div WordBits) + 1) * 2)
                               |-> UZero]]
         ELSE [bit_width |-> bit_width, four_state |-> TRUE, pointer |-> FALSE,
               payload |-> UZero]
    ELSE IF bit_width > WordBits
         THEN [bit_width |-> bit_width, four_state |-> FALSE, pointer |-> TRUE,
               payload |-> [k \in 1..(((bit_width - 1) \div WordBits) + 1)
                               |-> UZero]]
         ELSE [bit_width |-> bit_width, four_state |-> FALSE, pointer |-> FALSE,
               payload |-> UZero]

\* BitVector::from_bits_two_state::<u8>: the vector, or
\* [outcome |-> "panic"] for a bit_width above 64.
from_bits_two_state(bit_width, value) ==
    IF bit_width > WordBits
    THEN [outcome |-> "panic"]
    ELSE [bit_width |-> bit_width, four_state |-> FALSE, pointer |-> FALSE,
          payload |-> UFromByte(value)]

\* BitVector::from_bits_four_state::<u8>: the vector, or
\* [outcome |-> "panic"] for a bit_width above 32.
from_bits_four_state(bit_width, value, mask) ==
    IF bit_width > HalfWordBits
    THEN [outcome |-> "panic"]
    ELSE [bit_width |-> bit_width, four_state |-> TRUE, pointer |-> FALSE,
          payload |-> UOr(UAnd(UFromByte(value), HALF_WORD_MASK),
                          UShl(UFromByte(mask), HalfWordBits))]

\* BitVector::to_bits_two_state::<u8>: [outcome, value].  The call panics
\* on a vector of more than 8 bits, on a four-state vector and on a vector
\* on the heap.
to_bits_two_state(bv) ==
    IF bv.bit_width > 8 \/ bv.four_state \/ bv.pointer
    THEN [outcome |-> "panic"]
    ELSE [outcome |-> "ok", value |-> ULowByte(bv.payload)]

\* BitVector::to_bits_four_state::<u8>: [outcome, value, mask].  The call
\* panics on a vector of more than 8 bits.
to_bits_four_state(bv) ==
    IF bv.bit_width > 8
    THEN [outcome |-> "panic"]
    ELSE IF ~bv.four_state
    THEN [outcome |-> "ok", value |-> to_bits_two_state(bv).value, mask |-> 0]
    ELSE [outcome |-> "ok",
          value |-> ULowByte(UAnd(bv.payload, HALF_WORD_MASK)),
          mask  |-> ULowByte(UShr(bv.payload, HalfWordBits))]

\* BitVector::get_vector_words_size
get_vector_words_size(bv) ==
    IF bv.pointer THEN ((bv.bit_width - 1) \div WordBits) + 1 ELSE 1

\* The loop of from_be_bytes_two_state on an inline vector.
RECURSIVE pack_value_bytes(_, _, _)
pack_value_bytes(value, n, payload) ==
    IF n = Len(value) THEN payload
    ELSE pack_value_bytes(value, n + 1,
                          UOr(UShl(payload, 8), UFromByte(value[n + 1])))

\* The loop of from_be_bytes_four_state on an inline vector.
RECURSIVE pack_value_mask_bytes(_, _, _, _)
pack_value_mask_bytes(value, mask, n, payload) ==
    IF n = Len(value) THEN payload
    ELSE pack_value_mask_bytes(value, mask, n + 1,
             UOr(UOr(UShl(payload, 8), UFromByte(value[n + 1])),
                 UShl(UFromByte(mask[n + 1]), HalfWordBits)))

\* BitVector::from_be_bytes_two_state: the vector, or [outcome |-> "panic"].
\* The call panics when value is not of ((bit_width - 1) / 8) + 1 bytes, and
\* for a bit_width of 0 whatever value is: `bit_width - 1` panics with
\* overflow checks and wraps without them, to a byte_width of 2^61 that no
\* slice has.
from_be_bytes_two_state(bit_width, value) ==
    IF bit_width = 0 \/ Len(value) # ((bit_width - 1) \div 8) + 1
    THEN [outcome |-> "panic"]
    ELSE IF BitVector_new(bit_width, FALSE).pointer
    THEN [BitVector_new(bit_width, FALSE) EXCEPT
            !.payload = clone_be_bytes_to_usizes(value, Len(value))]
    ELSE [BitVector_new(bit_width, FALSE) EXCEPT
            !.payload = pack_value_bytes(value, 0, UZero)]

\* BitVector::from_be_bytes_four_state: the vector, or [outcome |-> "panic"]
\* when value is not of ((bit_width - 1) / 8) + 1 bytes (for a bit_width of
\* 0 whatever value is, as above) or mask is not as long as value.
from_be_bytes_four_state(bit_width, value, mask) ==
    IF bit_width = 0 \/ Len(value) # ((bit_width - 1) \div 8) + 1
       \/ Len(value) # Len(mask)
    THEN [outcome |-> "panic"]
    ELSE IF BitVector_new(bit_width, TRUE).pointer
    THEN [BitVector_new(bit_width, TRUE) EXCEPT
            !.payload = clone_be_bytes_to_usizes(value, Len(value))
                        \o clone_be_bytes_to_usizes(mask, Len(mask))]
    ELSE [BitVector_new(bit_width, TRUE) EXCEPT
            !.payload = pack_value_mask_bytes(value, mask, 0, UZero)]

\* BitVector::to_be_bytes_two_state into a buffer of n bytes:
\* [outcome, value], value being the buffer after the call.  The call
\* panics when n is not ((bit_width - 1) / 8) + 1 (for a bit_width of 0
\* whatever n is: the subtraction panics with overflow checks and wraps to
\* a byte_width of 2^61 without them) and on a four-state vector.
to_be_bytes_two_state(bv, n) ==
    IF bv.bit_width = 0 \/ n # ((bv.bit_width - 1) \div 8) + 1
       \/ bv.four_state
    THEN [outcome |-> "panic"]
    ELSE IF bv.pointer
    THEN [outcome |-> "ok",
          value |-> clone_usizes_to_be_bytes(bv.payload, 0, n)]
    ELSE [outcome |-> "ok",
          value |-> [i \in 1..n |-> ULowByte(UShr(bv.payload, 8 * (n - i)))]]

\* A faulty to_be_bytes_four_state, which reads the mask of a vector on the
\* heap from the words of its value.
to_be_bytes_four_state_value_words(bv, n) ==
    IF bv.bit_width = 0 \/ n # ((bv.bit_width - 1) \div 8) + 1
    THEN [outcome |-> "panic"]
    ELSE IF ~bv.four_state
    THEN [outcome |-> "ok", value |-> to_be_bytes_two_state(bv, n).value,
          mask |-> Zeros(n)]
    ELSE IF bv.pointer
    THEN [outcome |-> "ok",
          value |-> clone_usizes_to_be_bytes(bv.payload, 0, n),
          mask  |-> clone_usizes_to_be_bytes(bv.payload, 0, n)]
    ELSE [outcome |-> "ok",
          value |-> [i \in 1..n |-> ULowByte(UShr(bv.payload, 8 * (n - i)))],
          mask  |-> [i \in 1..n |->
               ULowByte(UShr(UShr(bv.payload, 8 * (n - i)), HalfWordBits))]]

\* BitVector::to_be_bytes_four_state into two buffers of n bytes each:
\* [outcome, value, mask], the buffers after the call.  The call panics
\* when n is not ((bit_width - 1) / 8) + 1, for a bit_width of 0 whatever n
\* is.
to_be_bytes_four_state(bv, n) ==
    IF bv.bit_width = 0 \/ n # ((bv.bit_width - 1) \div 8) + 1
    THEN [outcome |-> "panic"]
    ELSE IF ~bv.four_state
    THEN [outcome |-> "ok", value |-> to_be_bytes_two_state(bv, n).value,
          mask |-> Zeros(n)]
    ELSE IF bv.pointer
    THEN [outcome |-> "ok",
          value |-> clone_usizes_to_be_bytes(bv.payload, 0, n),
          mask  |-> clone_usizes_to_be_bytes(bv.payload,
                                             get_vector_words_size(bv), n)]
    ELSE [outcome |-> "ok",
          value |-> [i \in 1..n |-> ULowByte(UShr(bv.payload, 8 * (n - i)))],
          mask  |-> [i \in 1..n |->
               ULowByte(UShr(UShr(bv.payload, 8 * (n - i)), HalfWordBits))]]

\* impl From<(usize, usize)> for Logic
LogicFrom(value, mask) ==
    IF mask = 0
    THEN (IF value = 0 THEN "Zero" ELSE "One")
    ELSE (IF value = 0 THEN "Unknown" ELSE "HighImpedance")

\* BitVector::get_bit_four_state_internal
get_bit_four_state_internal(bv, index) ==
    IF bv.pointer
    THEN LogicFrom(
             bv.payload[(index \div WordBits) + 1][(index % WordBits) + 1],
             bv.payload[(index \div WordBits) + get_vector_words_size(bv) + 1]
                       [(index % WordBits) + 1])
    ELSE LogicFrom(bv.payload[index + 1], bv.payload[index + HalfWordBits + 1])

\* BitVector::get_bit_two_state_internal
get_bit_two_state_internal(bv, index) ==
    IF bv.pointer
    THEN bv.payload[(index \div WordBits) + 1][(index % WordBits) + 1]
    ELSE bv.payload[index + 1]

\* BitVector::get_bit
get_bit(bv, index) ==
    IF index >= bv.bit_width THEN "Zero"
    ELSE IF bv.four_state THEN get_bit_four_state_internal(bv, index)
    ELSE LogicFrom(get_bit_two_state_internal(bv, index), 0)

\* The Logic values.
Logics == {"Zero", "One", "Unknown", "HighImpedance"}

\* Logic::to_bool_pair, a bool as 0 or 1
to_bool_pair(bit) ==
    CASE bit = "Zero" -> <<0, 0>>
      [] bit = "One" -> <<1, 0>>
      [] bit = "Unknown" -> <<0, 1>>
      [] OTHER -> <<1, 1>>

\* impl From<Logic> for Bit, a Bit as 0 or 1
BitFrom(bit) == IF bit = "One" THEN 1 ELSE 0

\* (w & !(1 << bit_index)) | if b { 1 << bit_index } else { 0 }
USetBit(w, bit_index, b) ==
    [i \in 1..WordBits |-> IF i = bit_index + 1 THEN b ELSE w[i]]

\* BitVector::set_bit_four_state_internal
set_bit_four_state_internal(bv, index, bit) ==
    IF bv.pointer
    THEN [bv EXCEPT
            !.payload[(index \div WordBits) + 1] =
                USetBit(@, index % WordBits, to_bool_pair(bit)[1]),
            !.payload[(index \div WordBits) + get_vector_words_size(bv) + 1] =
                USetBit(@, index % WordBits, to_bool_pair(bit)[2])]
    ELSE [bv EXCEPT
            !.payload = USetBit(USetBit(@, index, to_bool_pair(bit)[1]),
                                index + HalfWordBits, to_bool_pair(bit)[2])]

\* A faulty set_bit_two_state_internal, which sets a bit but never clears
\* one.
set_bit_two_state_or(bv, index, bit) ==
    IF bv.pointer
    THEN [bv EXCEPT !.payload[(index \div WordBits) + 1] =
                        UOr(@, USetBit(UZero, index % WordBits, bit))]
    ELSE [bv EXCEPT !.payload = UOr(@, USetBit(UZero, index, bit))]

\* BitVector::set_bit_two_state_internal, bit a Bit
set_bit_two_state_internal(bv, index, bit) ==
    IF bv.pointer
    THEN [bv EXCEPT !.payload[(index \div WordBits) + 1] =
                        USetBit(@, index % WordBits, bit)]
    ELSE [bv EXCEPT !.payload = USetBit(@, index, bit)]

\* A faulty set_bit, which takes an index beyond the width modulo the width.
set_bit_wrapping(bv, index, bit) ==
    IF bv.four_state
    THEN set_bit_four_state_internal(bv, index % bv.bit_width, bit)
    ELSE set_bit_two_state_internal(bv, index % bv.bit_width, BitFrom(bit))

\* BitVector::set_bit
set_bit(bv, index, bit) ==
    IF index >= bv.bit_width THEN bv
    ELSE IF bv.four_state THEN set_bit_four_state_internal(bv, index, bit)
    ELSE set_bit_two_state_internal(bv, index, BitFrom(bit))

\* BitVector::get_memory_words_size
get_memory_words_size(bv) ==
    IF bv.pointer
    THEN IF bv.four_state
         THEN (((bv.bit_width - 1) \div WordBits) + 1) * 2
         ELSE ((bv.bit_width - 1) \div WordBits) + 1
    ELSE 0

\* A faulty eq, which compares the bits below the smaller width only.
eq_low_bits(self, other) ==
    LET compare(myself, shorter) ==
            \A i \in 0..(shorter.bit_width - 1) :
                get_bit(myself, i) = get_bit(shorter, i)
    IN  IF self.bit_width > other.bit_width
        THEN compare(self, other)
        ELSE compare(other, self)

\* impl PartialEq for BitVector
eq(self, other) ==
    LET compare(myself, shorter) ==
            /\ \A i \in 0..(shorter.bit_width - 1) :
                  get_bit(myself, i) = get_bit(shorter, i)
            /\ \A i \in shorter.bit_width..(myself.bit_width - 1) :
                  get_bit(myself, i) = "Zero"
    IN  IF self.bit_width > other.bit_width
        THEN compare(self, other)
        ELSE compare(other, self)

\* The heap is the sequence of the arrays allocated, the address of an
\* array its position.  In the state of the program the payload of a
\* BitVector with pointer = TRUE is the address of its array; the
\* operations above take it with the array in its place.

\* The BitVector at a handle, with its array for payload.
deref(mem, bv) ==
    IF bv.pointer THEN [bv EXCEPT !.payload = mem[bv.payload]] ELSE bv

\* alloc::alloc_zeroed and the writes of a constructor: [mem, bv]
allocated(mem, value) ==
    IF value.pointer
    THEN [mem |-> Append(mem, value.payload),
          bv |-> [value EXCEPT !.payload = Len(mem) + 1]]
    ELSE [mem |-> mem, bv |-> value]

\* The writes of set_bit through a handle: the heap after them.
written(mem, bv, value) ==
    IF bv.pointer THEN [mem EXCEPT ![bv.payload] = value.payload] ELSE mem

\* A faulty clone, which copies the pointer and not the array.
clone_shallow(mem, bv) == [mem |-> mem, bv |-> bv]

\* impl Clone for BitVector: [mem, bv]
clone(mem, bv) ==
    IF bv.pointer
    THEN [mem |-> Append(mem, SubSeq(mem[bv.payload], 1,
                                     get_memory_words_size(bv))),
          bv |-> [bv EXCEPT !.payload = Len(mem) + 1]]
    ELSE [mem |-> mem, bv |-> bv]

\* ------------------------------------------------------ ASCII and formatting
\* A byte string is a sequence of one-character strings, and so is the
\* String that to_string_radix returns.

\* The arms of the match on a byte in from_ascii_four_state: the byte sets
\* the value bit, the mask bit.
ascii_value(byte) == byte \in {"1", "Z", "z"}
ascii_mask(byte) == byte \in {"X", "x", "Z", "z"}

\* The word that the loops of from_ascii and from_ascii_four_state build
\* for the bits word * 64 .. word * 64 + 63: bit i comes from
\* bytes[bytes.len() - i - 1]; kind is "bit" (byte == b'1'), "value" or
\* "mask".
ascii_word(bytes, word, kind) ==
    [k \in 1..WordBits |->
        IF word * WordBits + k <= Len(bytes)
           /\ LET byte == bytes[Len(bytes) - (word * WordBits + k) + 1]
              IN  CASE kind = "bit" -> byte = "1"
                    [] kind = "value" -> ascii_value(byte)
                    [] OTHER -> ascii_mask(byte)
        THEN 1 ELSE 0]

\* BitVector::from_ascii
from_ascii(bytes) ==
    LET filled(bv) ==
            IF bv.pointer
            THEN [bv EXCEPT !.payload =
                     [j \in 1..Len(bv.payload) |-> ascii_word(bytes, j - 1, "bit")]]
            ELSE [bv EXCEPT !.payload = ascii_word(bytes, 0, "bit")]
    IN  filled(BitVector_new(Len(bytes), FALSE))

\* A faulty from_ascii_four_state, which takes every byte but '1' for '0'.
from_ascii_four_state_as_two(bytes) ==
    LET filled(bv) ==
            IF bv.pointer
            THEN [bv EXCEPT !.payload =
                     [j \in 1..Len(bv.payload) |->
                         IF j <= get_vector_words_size(bv)
                         THEN ascii_word(bytes, j - 1, "bit")
                         ELSE UZero]]
            ELSE [bv EXCEPT !.payload = ascii_word(bytes, 0, "bit")]
    IN  filled(BitVector_new(Len(bytes), TRUE))

\* BitVector::from_ascii_four_state: on the heap the value words and then
\* the mask words, inline the value bits in the low half of the word and
\* the mask bits in the high half.
from_ascii_four_state(bytes) ==
    LET filled(bv) ==
            IF bv.pointer
            THEN [bv EXCEPT !.payload =
                     [j \in 1..Len(bv.payload) |->
                         IF j <= get_vector_words_size(bv)
                         THEN ascii_word(bytes, j - 1, "value")
                         ELSE ascii_word(bytes,
                                         j - 1 - get_vector_words_size(bv),
                                         "mask")]]
            ELSE [bv EXCEPT !.payload =
                     UOr(ascii_word(bytes, 0, "value"),
                         UShl(ascii_word(bytes, 0, "mask"), HalfWordBits))]
    IN  filled(BitVector_new(Len(bytes), TRUE))

\* BitVectorRadix::to_str and Logic::to_str
Radixes == {"Binary", "Octal", "Decimal", "Hexadecimal"}
BitVectorRadix_to_str(radix) ==
    CASE radix = "Binary" -> "b"
      [] radix = "Octal" -> "o"
      [] radix = "Decimal" -> "d"
      [] OTHER -> "h"

Logic_to_str(bit) ==
    CASE bit = "Zero" -> "0"
      [] bit = "One" -> "1"
      [] bit = "Unknown" -> "X"
      [] OTHER -> "Z"

\* The table of fmt_radix, indexed from 0.
digit_table(digit) ==
    <<"0", "1", "2", "3", "4", "5", "6", "7", "8", "9",
      "A", "B", "C", "D", "E", "F">>[digit + 1]

div_ceil(lhs, rhs) ==
    IF lhs % rhs = 0 THEN lhs \div rhs ELSE (lhs \div rhs) + 1

\* The 64-bit word as four 16-bit limbs, most significant first.
ULimbs(w) ==
    LET limb(k) ==
            LET bit(b) == w[16 * k + b + 1]
            IN  bit(0) + 2 * bit(1) + 4 * bit(2) + 8 * bit(3) + 16 * bit(4)
                + 32 * bit(5) + 64 * bit(6) + 128 * bit(7) + 256 * bit(8)
                + 512 * bit(9) + 1024 * bit(10) + 2048 * bit(11)
                + 4096 * bit(12) + 8192 * bit(13) + 16384 * bit(14)
                + 32768 * bit(15)
    IN  <<limb(3), limb(2), limb(1), limb(0)>>

\* a / 10 and a % 10 of a u64 given as limbs: [q, r]
WDivMod10(a) ==
    LET r1 == a[1] % 10
        r2 == (r1 * LimbBase + a[2]) % 10
        r3 == (r2 * LimbBase + a[3]) % 10
    IN  [q |-> <<a[1] \div 10,
                 (r1 * LimbBase + a[2]) \div 10,
                 (r2 * LimbBase + a[3]) \div 10,
                 (r3 * LimbBase + a[4]) \div 10>>,
         r |-> (r3 * LimbBase + a[4]) % 10]

\* impl Display for u64: the decimal digits, most significant first.
RECURSIVE u64_fmt(_)
u64_fmt(a) ==
    IF WDivMod10(a).q = WZero
    THEN <<digit_table(WDivMod10(a).r)>>
    ELSE Append(u64_fmt(WDivMod10(a).q), digit_table(WDivMod10(a).r))

\* The digit of fmt_radix for the n bits from index i on (Octal and
\* Hexadecimal): Z or X if a mask is set, the digit of the table if not.
radix_digit(bv, i, n) ==
    LET pair(k) == to_bool_pair(get_bit(bv, i + k))
    IN  IF bv.four_state /\ \E k \in 0..(n - 1) : pair(k)[2] = 1
        THEN IF \A k \in 0..(n - 1) : pair(k)[1] = 1 \/ pair(k)[2] = 0
             THEN "Z" ELSE "X"
        ELSE IF bv.four_state
        THEN digit_table(pair(0)[1] + 2 * pair(1)[1] + 4 * pair(2)[1]
                         + (IF n = 4 THEN 8 * pair(3)[1] ELSE 0))
        ELSE digit_table(BitFrom(get_bit(bv, i)) + 2 * BitFrom(get_bit(bv, i + 1))
                         + 4 * BitFrom(get_bit(bv, i + 2))
                         + (IF n = 4 THEN 8 * BitFrom(get_bit(bv, i + 3)) ELSE 0))

\* A faulty decimal arm of fmt_radix, which prints Z for any mask bit set.
fmt_decimal_any_mask(bv) ==
    IF bv.pointer THEN <<"O", "V", "E", "R", "F", "L", "O", "W", "!">>
    ELSE IF bv.four_state
    THEN IF UShr(bv.payload, HalfWordBits) # UZero
         THEN <<"Z">>
         ELSE u64_fmt(ULimbs(UAnd(bv.payload, HALF_WORD_MASK)))
    ELSE u64_fmt(ULimbs(bv.payload))

\* The Decimal arms of fmt_radix; to_bits_four_state::<u64> gives the low
\* half of the word as value and the high half as mask, and (!value & mask)
\* == 0 is: every mask bit has its value bit.
fmt_decimal(bv) ==
    IF bv.pointer THEN <<"O", "V", "E", "R", "F", "L", "O", "W", "!">>
    ELSE IF bv.four_state
    THEN IF UShr(bv.payload, HalfWordBits) # UZero
         THEN IF \A i \in 1..HalfWordBits :
                     bv.payload[i + HalfWordBits] = 1 => bv.payload[i] = 1
              THEN <<"Z">> ELSE <<"X">>
         ELSE u64_fmt(ULimbs(UAnd(bv.payload, HALF_WORD_MASK)))
    ELSE u64_fmt(ULimbs(bv.payload))

\* BitVector::fmt_radix: the characters written to the formatter.
fmt_radix(bv, radix) ==
    <<BitVectorRadix_to_str(radix)>> \o
    CASE radix = "Binary" ->
             [k \in 1..bv.bit_width |->
                 IF bv.four_state
                 THEN Logic_to_str(get_bit(bv, bv.bit_width - k))
                 ELSE IF get_bit(bv, bv.bit_width - k) = "One" THEN "1" ELSE "0"]
      [] radix = "Octal" ->
             [k \in 1..div_ceil(bv.bit_width, 3) |->
                 radix_digit(bv, (div_ceil(bv.bit_width, 3) - k) * 3, 3)]
      [] radix = "Hexadecimal" ->
             [k \in 1..div_ceil(bv.bit_width, 4) |->
                 radix_digit(bv, (div_ceil(bv.bit_width, 4) - k) * 4, 4)]
      [] OTHER -> fmt_decimal(bv)

\* BitVector::to_string_radix
to_string_radix(bv, radix) == fmt_radix(bv, radix)

\* ---------------------------------------------------- WaveformSignalVector

\* WaveformVectorPacking::new: [kind, n], n a usize, as a word, or
\* [outcome |-> "panic"].  For a width of 0 `width - 1` panics with overflow
\* checks and wraps without them: ((2^64 - 1) / 8 + 1) * 2 is 2^62.
WaveformVectorPacking_new(width, overflow_checks) ==
    CASE width = 1      -> [kind |-> "Bits", n |-> W(2)]
      [] width = 2      -> [kind |-> "Bits", n |-> W(4)]
      [] width \in 3..4 -> [kind |-> "Bits", n |-> W(8)]
      [] width = 0      -> IF overflow_checks
                           THEN [outcome |-> "panic"]
                           ELSE [kind |-> "Bytes", n |-> WPow2(62)]
      [] OTHER          -> [kind |-> "Bytes",
                            n |-> W((((width - 1) \div 8) + 1) * 2)]

\* WaveformSignalVector::new: the signal, or [outcome |-> "panic"]
WaveformSignalVector_new(width, overflow_checks) ==
    LET made(packing) ==
            IF packing = [outcome |-> "panic"]
            THEN [outcome |-> "panic"]
            ELSE [width        |-> width,
                  packing      |-> packing,
                  history      |-> NewHistory,
                  vectors      |-> <<>>,
                  vector_index |-> 0,
                  bits_unused  |-> 0]
    IN  made(WaveformVectorPacking_new(width, overflow_checks))

\* A usize below 2^32 as a number, and whether a usize is one.
WSmall(a) == a[1] = 0 /\ a[2] = 0
WNum(a) == a[3] * LimbBase + a[4]

\* The Bits arm of update, [outcome, signal]: the value and the mask of bv
\* in one group of bits, or-ed into the last byte or pushed as a new one.
\* to_bits_four_state::<u8> panics on a vector of more than 8 bits, before
\* anything is packed.
update_bits(sv, bits, bv) ==
    LET packed(combined) ==
            CASE sv.bits_unused = 2 ->
                    [sv EXCEPT !.vectors[Len(sv.vectors)] =
                                   ByteOr(@, (combined * 64) % 256),
                               !.bits_unused = 2 - bits]
              [] sv.bits_unused = 4 ->
                    [sv EXCEPT !.vectors[Len(sv.vectors)] =
                                   ByteOr(@, (combined * 16) % 256),
                               !.bits_unused = 4 - bits]
              [] sv.bits_unused = 6 ->
                    [sv EXCEPT !.vectors[Len(sv.vectors)] =
                                   ByteOr(@, (combined * 4) % 256),
                               !.bits_unused = 6 - bits]
              [] OTHER ->
                    [sv EXCEPT !.vectors = Append(sv.vectors, combined),
                               !.bits_unused = 8 - bits]
        pack(combined) == [outcome |-> "ok", signal |-> packed(combined)]
        combine(vm, combined_mask) ==
            IF vm.outcome = "panic"
            THEN [outcome |-> "panic", signal |-> sv]
            ELSE pack(ByteOr(ByteAnd(vm.value, combined_mask),
                             (ByteAnd(vm.mask, combined_mask)
                                  * (2 ^ (bits \div 2))) % 256))
    IN  combine(to_bits_four_state(bv), 2 ^ (bits \div 2) - 1)

\* The Bytes arm of update, [outcome, signal]: bytes / 2 value bytes and
\* bytes / 2 mask bytes, those of bv at the low end of each.  The arm stops
\* - at `bv.get_bit_width() - 1` (line 71), which for a vector of width 0
\*   panics with overflow checks and wraps without them, to a byte_width of
\*   2^61;
\* - at the resize (line 72), which for the 2^62 bytes of a signal of width
\*   0 fails to allocate and aborts the process;
\* - at `bytes / 2 - byte_width` (line 77) when bv has more bytes than the
\*   signal, after the resize: the subtraction panics with overflow checks
\*   and wraps without them, to a start that the slice does not have.
update_bytes(sv, bytes, bv, overflow_checks) ==
    LET byte_width == ((bv.bit_width - 1) \div 8) + 1
        store(n, vm) ==
            [outcome |-> "ok",
             signal  |-> [sv EXCEPT !.vectors =
                             sv.vectors \o Zeros(n \div 2 - byte_width)
                                        \o vm.value
                                        \o Zeros(n \div 2 - byte_width)
                                        \o vm.mask]]
        resized(n) ==
            IF bv.bit_width = 0 \/ byte_width > n \div 2
            THEN [outcome |-> "panic",
                  signal  |-> [sv EXCEPT !.vectors = sv.vectors \o Zeros(n)]]
            ELSE store(n, to_be_bytes_four_state(bv, byte_width))
    IN  IF bv.bit_width = 0 /\ overflow_checks
        THEN [outcome |-> "panic", signal |-> sv]
        ELSE IF ~WSmall(bytes)
        THEN [outcome |-> "abort", signal |-> sv]
        ELSE resized(WNum(bytes))

\* WaveformSignalVector::update: [outcome, signal].  outcome = "panic" is
\* the panic of add_change, which leaves the signal as it was, or a panic
\* of the Bits or the Bytes arm, which leaves it with the change in its
\* history and without the vector.
update(sv, timestamp_index, bv, overflow_checks) ==
    LET packed(r) ==
            IF r.outcome = "ok"
            THEN [outcome |-> "ok",
                  signal  |-> [r.signal EXCEPT !.vector_index = @ + 1]]
            ELSE r
        stored(sw) ==
            IF sw.packing.kind = "Bits"
            THEN packed(update_bits(sw, WNum(sw.packing.n), bv))
            ELSE packed(update_bytes(sw, sw.packing.n, bv, overflow_checks))
        recorded(r) ==
            IF r.outcome = "panic"
            THEN [outcome |-> "panic", signal |-> sv]
            ELSE stored([sv EXCEPT !.history = r.h])
    IN  recorded(add_change(sv.history, timestamp_index, W(sv.vector_index),
                            overflow_checks))

\* WaveformSignalVector::get_bitvector: the vector, or [outcome |-> "panic"]
\* when the bytes of entry index are beyond the packed payload (as all are
\* with the 2^62 bytes an entry of a signal of width 0).
get_bitvector(sv, index) ==
    LET unpack(bits, byte, bit_index, bit_mask) ==
            from_bits_four_state(sv.width,
                ByteAnd(byte \div (2 ^ bit_index), bit_mask),
                ByteAnd(byte \div (2 ^ (bit_index + bits \div 2)), bit_mask))
        bits_arm(bits, vectors_per_byte) ==
            unpack(bits, sv.vectors[(index \div vectors_per_byte) + 1],
                   (index % vectors_per_byte) * bits, 2 ^ (bits \div 2) - 1)
        bytes_arm(bytes, offset) ==
            from_be_bytes_four_state(sv.width,
                SubSeq(sv.vectors, offset + 1, offset + bytes \div 2),
                SubSeq(sv.vectors, offset + bytes \div 2 + 1, offset + bytes))
    IN  IF sv.packing.kind = "Bits"
        THEN IF index \div (8 \div WNum(sv.packing.n)) >= Len(sv.vectors)
             THEN [outcome |-> "panic"]
             ELSE bits_arm(WNum(sv.packing.n), 8 \div WNum(sv.packing.n))
        ELSE IF ~WSmall(sv.packing.n)
                \/ WNum(sv.packing.n) * (index + 1) > Len(sv.vectors)
        THEN [outcome |-> "panic"]
        ELSE bytes_arm(WNum(sv.packing.n), WNum(sv.packing.n) * index)

\* ------------------------------------------------------ WaveformSignalReal
\* An f64 is its 64 bits, a word: to_be_bytes and from_be_bytes of an f64
\* are those of its bits.

\* f64::to_be_bytes
f64_to_be_bytes(value) == ToBeBytes(value)

\* f64::from_be_bytes
f64_from_be_bytes(bytes) == FromBeBytes(bytes)

\* WaveformSignalReal::new
WaveformSignalReal_new ==
    [history |-> NewHistory, vectors |-> <<>>, vector_index |-> 0]

\* WaveformSignalReal::update: [outcome, signal], outcome = "panic" being the
\* panic of add_change, before anything is stored.
WaveformSignalReal_update(sr, timestamp_index, value, overflow_checks) ==
    LET stored(r) ==
            IF r.outcome = "panic"
            THEN [outcome |-> "panic", signal |-> sr]
            ELSE [outcome |-> "ok",
                  signal |-> [history |-> r.h,
                              vectors |-> sr.vectors \o f64_to_be_bytes(value),
                              vector_index |-> sr.vector_index + 1]]
    IN  stored(add_change(sr.history, timestamp_index, W(sr.vector_index),
                          overflow_checks))

\* `&self.vectors[start..end]`: the slice, or a panic when end is beyond
\* the length.
slice(vectors, start, end) ==
    IF end > Len(vectors)
    THEN [outcome |-> "panic"]
    ELSE [outcome |-> "ok", bytes |-> SubSeq(vectors, start + 1, end)]

\* `<[u8; 8]>::try_from(slice).unwrap()`: the array, or a panic when the
\* slice is not of 8 bytes.
try_into_8_unwrap(s) ==
    IF s.outcome = "ok" /\ Len(s.bytes) = 8
    THEN [outcome |-> "ok", bytes |-> s.bytes]
    ELSE [outcome |-> "panic"]

\* WaveformSignalReal::get_real: [outcome, value].  The range is
\* (index * 8)..(index * 8) + 1.
get_real(sr, index) ==
    LET read(a) ==
            IF a.outcome = "ok"
            THEN [outcome |-> "ok", value |-> f64_from_be_bytes(a.bytes)]
            ELSE [outcome |-> "panic"]
    IN  read(try_into_8_unwrap(slice(sr.vectors, index * 8, (index * 8) + 1)))

\* ---------------------------------------------------------------- Waveform
\* A Waveform is [timestamps, vector_signals]: the u64 timestamps, numbers
\* here (they are only compared), and the map from id to signal vector.

\* Waveform::new
Waveform_new == [timestamps |-> <<>>, vector_signals |-> <<>>]

\* Waveform::initialize_vector: [outcome, wf], outcome = "panic" being the
\* panic of WaveformSignalVector::new(0) with overflow checks.
initialize_vector(wf, id, width, overflow_checks) ==
    LET inserted(signal) ==
            IF signal = [outcome |-> "panic"]
            THEN [outcome |-> "panic", wf |-> wf]
            ELSE [outcome |-> "Ok",
                  wf |-> [wf EXCEPT !.vector_signals =
                             [i \in (DOMAIN wf.vector_signals) \cup {id} |->
                                 IF i = id THEN signal
                                           ELSE wf.vector_signals[i]]]]
    IN  inserted(WaveformSignalVector_new(width, overflow_checks))

\* A faulty insert_timestamp, which also stores a timestamp equal to the
\* last one.
insert_timestamp_duplicates(wf, timestamp) ==
    IF Len(wf.timestamps) > 0 /\ timestamp < wf.timestamps[Len(wf.timestamps)]
    THEN [outcome |-> "DecreasingTimestamp", timestamp |-> timestamp, wf |-> wf]
    ELSE [outcome |-> "Ok",
          wf |-> [wf EXCEPT !.timestamps = Append(@, timestamp)]]

\* Waveform::insert_timestamp: [outcome, wf]
insert_timestamp(wf, timestamp) ==
    IF Len(wf.timestamps) > 0
    THEN IF timestamp < wf.timestamps[Len(wf.timestamps)]
         THEN [outcome |-> "DecreasingTimestamp", timestamp |-> timestamp,
               wf |-> wf]
         ELSE IF timestamp > wf.timestamps[Len(wf.timestamps)]
         THEN [outcome |-> "Ok",
               wf |-> [wf EXCEPT !.timestamps = Append(@, timestamp)]]
         ELSE [outcome |-> "Ok", wf |-> wf]
    ELSE [outcome |-> "Ok",
          wf |-> [wf EXCEPT !.timestamps = Append(@, timestamp)]]

\* `self.timestamps.len() - 1`: with overflow checks the subtraction panics
\* on an empty array, without them it wraps.
last_timestamp_index(wf, overflow_checks) ==
    IF Len(wf.timestamps) > 0
    THEN [outcome |-> "ok", index |-> W(Len(wf.timestamps) - 1)]
    ELSE IF overflow_checks
    THEN [outcome |-> "panic"]
    ELSE [outcome |-> "ok", index |-> WMinusOne]

\* A faulty update_vector, without the test of the width.
update_vector_any_width(wf, id, value, overflow_checks) ==
    LET updated(u) ==
            [outcome |-> IF u.outcome = "ok" THEN "Ok" ELSE u.outcome,
             wf      |-> [wf EXCEPT !.vector_signals[id] = u.signal]]
        stored(signal, t) ==
            IF t.outcome = "panic"
            THEN [outcome |-> "panic", wf |-> wf]
            ELSE updated(update(signal, t.index, value, overflow_checks))
    IN  IF id \notin DOMAIN wf.vector_signals
        THEN [outcome |-> "InvalidId", id |-> id, wf |-> wf]
        ELSE stored(wf.vector_signals[id],
                    last_timestamp_index(wf, overflow_checks))

\* Waveform::update_vector: [outcome, wf], outcome = "panic" being the
\* panic of the subtraction or of add_change, before anything is stored, or
\* a panic of signal.update on a vector of width 0, which leaves the change
\* in the signal's history.
update_vector(wf, id, value, overflow_checks) ==
    LET updated(u) ==
            [outcome |-> IF u.outcome = "ok" THEN "Ok" ELSE u.outcome,
             wf      |-> [wf EXCEPT !.vector_signals[id] = u.signal]]
        stored(signal, t) ==
            IF t.outcome = "panic"
            THEN [outcome |-> "panic", wf |-> wf]
            ELSE updated(update(signal, t.index, value, overflow_checks))
    IN  IF id \notin DOMAIN wf.vector_signals
        THEN [outcome |-> "InvalidId", id |-> id, wf |-> wf]
        ELSE IF wf.vector_signals[id].width < value.bit_width
        THEN [outcome |-> "InvalidWidth", id |-> id,
              expected |-> wf.vector_signals[id].width,
              actual |-> value.bit_width, wf |-> wf]
        ELSE stored(wf.vector_signals[id],
                    last_timestamp_index(wf, overflow_checks))

\* Waveform::search_timestamp_recursive on the range start..end:
\* [outcome, res], outcome = "panic" being an index out of bounds.
\* timestamps[i] of the code is wf.timestamps[i + 1].
RECURSIVE search_timestamp_recursive(_, _, _, _, _)
search_timestamp_recursive(wf, timestamp, start, end, after) ==
    IF (after /\ (end < 1 \/ end > Len(wf.timestamps)))
       \/ (~after /\ start >= Len(wf.timestamps))
    THEN [outcome |-> "panic"]
    ELSE IF (IF after THEN wf.timestamps[end] < timestamp
                      ELSE timestamp < wf.timestamps[start + 1])
    THEN [outcome |-> "ok", res |-> None]
    ELSE IF end - start > 1
    THEN IF (IF after
             THEN timestamp <= wf.timestamps[(start + end) \div 2]
             ELSE timestamp < wf.timestamps[((start + end) \div 2) + 1])
         THEN search_timestamp_recursive(
                  wf, timestamp, start, (start + end) \div 2, after)
         ELSE search_timestamp_recursive(
                  wf, timestamp, (start + end) \div 2, end, after)
    ELSE [outcome |-> "ok", res |-> Some(start)]

\* Waveform::search_timestamp
search_timestamp(wf, timestamp) ==
    search_timestamp_recursive(wf, timestamp, 0, Len(wf.timestamps), FALSE)

\* Waveform::search_timestamp_after
search_timestamp_after(wf, timestamp) ==
    search_timestamp_recursive(wf, timestamp, 0, Len(wf.timestamps), TRUE)

\* The search with a mode that the tests call: Before and After are the two
\* searches above; Exact is the index before if it holds the timestamp;
\* Closest is the nearer of the index before and the index after, the index
\* before on a tie, and the one that exists if only one does.
search_timestamp_mode(wf, timestamp, search_mode) ==
    LET dist(i) == IF wf.timestamps[i + 1] > timestamp
                   THEN wf.timestamps[i + 1] - timestamp
                   ELSE timestamp - wf.timestamps[i + 1]
        select(before, after) ==
            IF before.outcome = "panic" \/ after.outcome = "panic"
            THEN [outcome |-> "panic"]
            ELSE CASE search_mode = "Before" -> before
                   [] search_mode = "After" -> after
                   [] search_mode = "Exact" ->
                        IF before.res.some
                           /\ wf.timestamps[before.res.val + 1] = timestamp
                        THEN before
                        ELSE [outcome |-> "ok", res |-> None]
                   [] OTHER ->
                        IF ~before.res.some THEN after
                        ELSE IF ~after.res.some THEN before
                        ELSE IF dist(after.res.val) < dist(before.res.val)
                        THEN after
                        ELSE before
    IN  select(search_timestamp(wf, timestamp),
               search_timestamp_after(wf, timestamp))

\* ------------------------------------------------------------ state machine

VARIABLES
    history,    \* the WaveformHistory under test
    appended,   \* the pairs passed to the add_change calls that returned
    iter,       \* the live WaveformHistoryIter, or NoIter
    last,       \* the last call: its name, arguments and result
    singles,    \* add_change calls made one by one
    runs,       \* generate_history calls made
    signal,     \* the WaveformSignalVector under test, or NoSignal
    updates,    \* the vectors passed to its update calls
    real,       \* the WaveformSignalReal under test, or NoReal
    reals,      \* the values passed to its update calls
    rlast,      \* the last call on it: its name, arguments and result
    waveform,   \* the Waveform under test, or NoWaveform
    wlast,      \* the last call on it: its name, arguments and result
    heap,       \* the arrays allocated by the BitVectors
    bitvec,     \* the BitVector under test, or NoBitVector
    copy,       \* its clone, or NoBitVector
    origin,     \* the constructor call that made bitvec
    expected,   \* the Logic values that bitvec and copy are to hold
    sets,       \* set_bit calls made
    blast       \* the last call on a BitVector: name, arguments, result

\* The variables of the real signal.
rvars == <<real, reals, rlast>>

\* The variables of the objects other than the history and the signal vector.
\* The variables of the waveform.
wvars == <<waveform, wlast>>

\* The variables of the bit vectors.
bvars == <<heap, bitvec, copy, origin, expected, sets, blast>>

ovars == <<rvars, wvars, bvars>>

vars == <<history, appended, iter, last, singles, runs, signal, updates, ovars>>

\* The variables of the signal vector.
vvars == <<signal, updates>>

\* The variables of the history.
hvars == <<history, appended, iter, last, singles, runs>>

NoSignal == [width |-> 0]

NoReal == [vector_index |-> 0 - 1]

\* No real signal has been constructed.
RealIdle == real = NoReal /\ reals = <<>> /\ rlast = [op |-> "none"]

NoWaveform == [timestamps |-> <<>>]

\* No waveform has been constructed.
WaveformIdle == waveform = NoWaveform /\ wlast = [op |-> "none"]

NoBitVector == [bit_width |-> 0]

\* No BitVector has been constructed.
BitVectorIdle ==
    /\ heap = <<>>
    /\ bitvec = NoBitVector
    /\ copy = NoBitVector
    /\ origin = [constructor |-> "none"]
    /\ expected = [bitvec |-> <<>>, copy |-> <<>>]
    /\ sets = 0
    /\ blast = [op |-> "none"]

OthersIdle == RealIdle /\ WaveformIdle /\ BitVectorIdle

\* No history has been constructed but the empty one of Init.
HistoryIdle ==
    /\ history = NewHistory
    /\ appended = <<>>
    /\ iter = [live |-> FALSE]
    /\ last = [op |-> "new", outcome |-> "ok"]
    /\ singles = 0
    /\ runs = 0

\* No signal vector has been constructed.
VectorIdle == signal = NoSignal /\ updates = <<>>

\* Bounds: add_change calls made one by one on a history built from
\* nothing and on one built by generate_history, generate_history calls,
\* and the calls and the seeks on one iterator.
MaxSingles == 3
MaxAfterRun == 1
MaxRuns == 1
MaxIterOps == 2
MaxSeeks == 2

NoIter == [live |-> FALSE]

\* The gaps between consecutive timestamp indices that the calls use: no
\* skip, a one-byte skip, the largest eight-byte skip (2^56 - 1), the
\* smallest nine-byte skip (2^56) and a ten-byte skip (2^63).
Gap1 == W(1)
Gap4 == W(4)
Gap8Bytes == WPow2(56)
Gap9Bytes == WAdd(WPow2(56), WOne)
Gap10Bytes == WAdd(WPow2(63), WOne)
Gaps == {Gap1, Gap4, Gap8Bytes, Gap9Bytes, Gap10Bytes}

\* The timestamp index of the first change: a small one, one within
\* MAX_BLOCK_CHANGES of usize::MAX, and usize::MAX.
FirstStamps == {W(3), WSub(WMax, W(4)), WMax}

\* The timestamp index at which generate_history starts.
RunStarts == {W(3)}

\* The deltas of generate_history, which the tests draw at random from
\* 1..255: a pattern is a sequence of segments <<n, delta>>, n changes each
\* followed by delta.  A delta of 200 is a skip of 199, two skip bytes and
\* one change byte: 165 such changes after the first fill the 495 free
\* bytes of a block, and 127 changes with delta 1 fill a change byte.  The
\* last pattern fills the first change byte of a block with room left.
RunPatterns ==
    { << <<164, 200>>, <<1, 1>> >>,
      << <<165, 200>>, <<1, 1>> >>,
      << <<165, 200>>, <<128, 1>> >>,
      << <<128, 1>> >> }

LastStamp == appended[Len(appended)].timestamp_index

Init ==
    /\ history = NewHistory
    /\ appended = <<>>
    /\ iter = NoIter
    /\ last = [op |-> "new", outcome |-> "ok"]
    /\ singles = 0
    /\ runs = 0
    /\ signal = NoSignal
    /\ updates = <<>>
    /\ OthersIdle

\* The history may be used: no iterator borrows it, the program has not
\* panicked, and no query has been made (a query leaves the history as it
\* is, so that one query per history is all there is to see).
Mutable == iter = NoIter /\ last.op \in {"new", "add_change", "generate_history"}
                        /\ last.outcome = "ok"

\* history.add_change(t, value_index), value_index the number of changes
\* appended so far (the caller's counter, vector.rs line 51).  last keeps
\* the history as it was before the call (old) and whether t is the
\* timestamp index of the previous append (dup).  The build has overflow
\* checks or not.
AddChange(t) ==
    /\ Mutable
    /\ singles < (IF runs = 0 THEN MaxSingles ELSE MaxAfterRun)
    /\ \E overflow_checks \in BOOLEAN :
       LET done(v, r) ==
               /\ history' = r.h
               /\ appended' = IF r.outcome = "ok"
                              THEN Append(appended, HistoryIndex(t, v))
                              ELSE appended
               /\ last' = [op |-> "add_change", outcome |-> r.outcome,
                           t |-> t, v |-> v, old |-> history,
                           dup |-> appended # <<>> /\ t = LastStamp]
       IN  done(W(Len(appended)),
                add_change(history, t, W(Len(appended)), overflow_checks))
    /\ singles' = singles + 1
    /\ UNCHANGED <<iter, runs, signal, updates, ovars>>

AddFirst == appended = <<>> /\ \E t \in FirstStamps : AddChange(t)

AddNext ==
    /\ appended # <<>>
    /\ \E gap \in Gaps :
          /\ ~WAddOverflows(LastStamp, gap)
          /\ AddChange(WAdd(LastStamp, gap))

AddDuplicate == appended # <<>> /\ AddChange(LastStamp)

\* The number of changes of a pattern and the delta after change i (from 0).
RECURSIVE PatternNum(_)
PatternNum(pattern) ==
    IF pattern = <<>> THEN 0 ELSE pattern[1][1] + PatternNum(Tail(pattern))

RECURSIVE PatternDelta(_, _)
PatternDelta(pattern, i) ==
    IF i < pattern[1][1] THEN pattern[1][2]
    ELSE PatternDelta(Tail(pattern), i - pattern[1][1])

\* One iteration of the `for _ in 0..num` of generate_history (tests.rs);
\* s.i is value_index.  The tests are built with overflow checks.
generate_history_body(pattern, s) ==
    IF s.i >= PatternNum(pattern)
    THEN [s EXCEPT !.done = TRUE]
    ELSE [h               |-> add_change(s.h, s.timestamp_index, W(s.i),
                                         TRUE).h,
          expected        |-> Append(s.expected,
                                     HistoryIndex(s.timestamp_index, W(s.i))),
          timestamp_index |-> WAdd(s.timestamp_index, W(PatternDelta(pattern, s.i))),
          i               |-> s.i + 1,
          done            |-> FALSE]

RECURSIVE generate_history_run(_, _, _)
generate_history_run(pattern, s, n) ==
    IF n = 0 \/ s.done THEN s
    ELSE IF n = 1 THEN generate_history_body(pattern, s)
    ELSE generate_history_run(pattern,
                              generate_history_run(pattern, s, n \div 2),
                              n - n \div 2)

\* generate_history (tests.rs): [h, expected, ...], a new history with the
\* changes of the pattern, the first at start.
generate_history(pattern, start) ==
    generate_history_run(pattern,
        [h |-> NewHistory, expected |-> <<>>, timestamp_index |-> start,
         i |-> 0, done |-> FALSE],
        PatternNum(pattern) + 1)

GenerateHistory ==
    /\ Mutable
    /\ appended = <<>>
    /\ runs < MaxRuns
    /\ \E start \in RunStarts, pattern \in RunPatterns :
          LET done(g) ==
                  /\ history' = g.h
                  /\ appended' = g.expected
          IN  done(generate_history(pattern, start))
    /\ last' = [op |-> "generate_history", outcome |-> "ok"]
    /\ runs' = runs + 1
    /\ UNCHANGED <<iter, singles, signal, updates, ovars>>

\* A small value_index as a number.
WToNat(a) == a[3] * LimbBase + a[4]

\* The positions (1-based, in appended) whose neighbourhood is queried:
\* the two first and two last changes and the changes on both sides of
\* every block boundary.
QueryPositions ==
    LET n == Len(appended)
        firsts == {WToNat(get_value_index(get_block(history, k))) :
                      k \in 1..(get_block_count(history) - 1)}
    IN  ({1, 2, n - 1, n} \cup firsts \cup {f + 1 : f \in firsts}) \cap (1..n)

\* The timestamp indices queried: each such change, its predecessor and its
\* successor, and one far beyond the last change.
QueryStamps ==
    IF appended = <<>> THEN {W(0), W(5)}
    ELSE UNION {{appended[p].timestamp_index} \cup
                (IF appended[p].timestamp_index = WMax THEN {}
                 ELSE {WAdd(appended[p].timestamp_index, WOne)}) \cup
                (IF appended[p].timestamp_index = WZero THEN {}
                 ELSE {WSub(appended[p].timestamp_index, WOne)}) :
                p \in QueryPositions}
         \cup (IF WAddOverflows(LastStamp, W(MAX_BLOCK_CHANGES + 2)) THEN {}
               ELSE {WAdd(LastStamp, W(MAX_BLOCK_CHANGES + 2))})

\* history.search_timestamp_index(t, mode), in a build with or without
\* overflow checks (checks).
Search ==
    /\ Mutable
    /\ \E t \in QueryStamps, mode \in SearchModes, overflow_checks \in BOOLEAN :
          LET done(r) ==
                  last' = IF r = Panic
                          THEN [op |-> "search", outcome |-> "panic",
                                t |-> t, mode |-> mode,
                                checks |-> overflow_checks]
                          ELSE [op |-> "search", outcome |-> "ok",
                                t |-> t, mode |-> mode,
                                checks |-> overflow_checks, res |-> r]
          IN  done(search_timestamp_index(history, t, mode, overflow_checks))
    /\ UNCHANGED <<history, appended, iter, singles, runs, signal, updates, ovars>>

\* `for index in history.into_iter()`: the pairs collected until None.
Collect ==
    /\ Mutable
    /\ \E overflow_checks \in BOOLEAN :
          LET done(r) ==
                  last' = IF r = Panic
                          THEN [op |-> "collect", outcome |-> "panic",
                                checks |-> overflow_checks]
                          ELSE [op |-> "collect", outcome |-> "ok",
                                checks |-> overflow_checks, res |-> r.res]
          IN  done(iter_collect(history, into_iter(history), overflow_checks))
    /\ UNCHANGED <<history, appended, iter, singles, runs, signal, updates, ovars>>

\* history.into_iter(), in a build with or without overflow checks
\* (iter.checks), which is the build of the calls on the iterator.
IntoIter ==
    /\ Mutable
    /\ \E overflow_checks \in BOOLEAN :
       LET done(it) ==
               IF it = Panic
               THEN /\ last' = [op |-> "into_iter", outcome |-> "panic"]
                    /\ iter' = iter
               ELSE /\ last' = [op |-> "into_iter", outcome |-> "ok"]
                    /\ iter' = [live |-> TRUE, it |-> it, ops |-> 0,
                                seeks |-> 0, pos |-> 0,
                                checks |-> overflow_checks]
       IN  done(into_iter(history))
    /\ UNCHANGED <<history, appended, singles, runs, signal, updates, ovars>>

\* The number of pairs the iterator has passed once a call on it has
\* returned res: the returned pair and all before it (the value_index of a
\* pair is the number of pairs before it), as many as before after a None.
Passed(res, pos) == IF res.some THEN WToNat(res.val.value_index) + 1 ELSE pos

\* iter.next().  A panic ends the program, and the iterator with it.
IterNext ==
    /\ iter # NoIter
    /\ iter.ops < MaxIterOps
    /\ LET done(r) ==
               IF r = Panic
               THEN /\ iter' = NoIter
                    /\ last' = [op |-> "next", outcome |-> "panic",
                                checks |-> iter.checks, res |-> Panic,
                                before |-> last]
               ELSE /\ iter' = [iter EXCEPT !.it = r.it, !.ops = iter.ops + 1,
                                            !.pos = Passed(r.res, iter.pos)]
                    /\ last' = [op |-> "next", outcome |-> "ok",
                                checks |-> iter.checks, res |-> r.res,
                                before |-> last]
       IN  done(iter_next(history, iter.it, iter.checks))
    /\ UNCHANGED <<history, appended, singles, runs, signal, updates, ovars>>

\* iter.seek(t)
IterSeek ==
    /\ iter # NoIter
    /\ iter.ops < MaxIterOps
    /\ iter.seeks < MaxSeeks
    /\ \E t \in QueryStamps :
          LET done(r) ==
                  IF r = Panic
                  THEN /\ iter' = NoIter
                       /\ last' = [op |-> "seek", outcome |-> "panic", t |-> t,
                                   checks |-> iter.checks, res |-> Panic,
                                   before |-> last, from |-> iter.pos]
                  ELSE /\ iter' = [iter EXCEPT !.it = r.it,
                                               !.ops = iter.ops + 1,
                                               !.seeks = iter.seeks + 1,
                                               !.pos = Passed(r.res, iter.pos)]
                       /\ last' = [op |-> "seek", outcome |-> "ok", t |-> t,
                                   checks |-> iter.checks, res |-> r.res,
                                   before |-> last, from |-> iter.pos]
          IN  done(iter_seek(history, iter.it, t, iter.checks))
    /\ UNCHANGED <<history, appended, singles, runs, signal, updates, ovars>>

Next ==
    \/ AddFirst
    \/ AddNext
    \/ AddDuplicate
    \/ GenerateHistory
    \/ Search
    \/ Collect
    \/ IntoIter
    \/ IterNext
    \/ IterSeek

Spec == Init /\ [][Next]_vars

\* -------------------------------------------- signal history state machine
\* A WaveformSignalHistory under test, in the variables of the history:
\* history is the WaveformSignalHistory, appended the pairs passed to the
\* update_block calls that returned.

\* The run of update_block calls of a signal whose value changes at
\* SignalFirst and then after the deltas of a pattern (segments
\* <<n, delta>>, as in RunPatterns).  The first run fills the first change
\* byte of a block (128 changes) and goes on in a second change byte, then
\* skips; the second one fills a block and goes on in a second block; the
\* third one has a skip before a run of changes; the last one is a run of
\* 130 changes, two in the second change byte.
SignalPatterns ==
    { << <<199, 1>>, <<2, 4>>, <<1, 1>> >>,
      << <<165, 200>>, <<130, 1>> >>,
      << <<1, 4>>, <<3, 1>>, <<1, 4>>, <<1, 1>> >>,
      << <<130, 1>> >> }

\* The history may be used: the program has not panicked and no search has
\* been made.
SignalMutable == last.op \in {"new", "update_block", "update_blocks"}
                 /\ last.outcome = "ok"

\* history.update_block(t, value_index), value_index the number of changes
\* so far (the caller's counter, signal_real.rs line 26).
UpdateBlock(t) ==
    /\ SignalMutable
    /\ singles < (IF runs = 0 THEN MaxSingles ELSE MaxAfterRun)
    /\ \E overflow_checks \in BOOLEAN :
       LET done(v, r) ==
               /\ history' = r.h
               /\ appended' = IF r.outcome = "ok"
                              THEN Append(appended, HistoryIndex(t, v))
                              ELSE appended
               /\ last' = [op |-> "update_block", outcome |-> r.outcome,
                           t |-> t, v |-> v]
       IN  done(W(Len(appended)),
                update_block(history, t, W(Len(appended)), overflow_checks))
    /\ singles' = singles + 1
    /\ UNCHANGED <<iter, runs, signal, updates, ovars>>

UpdateBlockFirst == appended = <<>> /\ \E t \in FirstStamps : UpdateBlock(t)

UpdateBlockNext ==
    /\ appended # <<>>
    /\ \E gap \in Gaps :
          /\ ~WAddOverflows(LastStamp, gap)
          /\ UpdateBlock(WAdd(LastStamp, gap))

UpdateBlockDuplicate == appended # <<>> /\ UpdateBlock(LastStamp)

\* One call of a run of update_block calls; s.i is the caller's counter.
\* The timestamp indices increase, so that the calls are the same with and
\* without overflow checks.
update_blocks_body(pattern, s) ==
    IF s.i >= PatternNum(pattern)
    THEN [s EXCEPT !.done = TRUE]
    ELSE [h               |-> update_block(s.h, s.timestamp_index, W(s.i),
                                           TRUE).h,
          expected        |-> Append(s.expected,
                                     HistoryIndex(s.timestamp_index, W(s.i))),
          timestamp_index |-> WAdd(s.timestamp_index, W(PatternDelta(pattern, s.i))),
          i               |-> s.i + 1,
          done            |-> FALSE]

RECURSIVE update_blocks_run(_, _, _)
update_blocks_run(pattern, s, n) ==
    IF n = 0 \/ s.done THEN s
    ELSE IF n = 1 THEN update_blocks_body(pattern, s)
    ELSE update_blocks_run(pattern,
                           update_blocks_run(pattern, s, n \div 2),
                           n - n \div 2)

\* The update_block calls of a pattern on a new history, the first at start.
update_blocks(pattern, start) ==
    update_blocks_run(pattern,
        [h |-> WaveformSignalHistory_new, expected |-> <<>>,
         timestamp_index |-> start, i |-> 0, done |-> FALSE],
        PatternNum(pattern) + 1)

UpdateBlocks ==
    /\ SignalMutable
    /\ appended = <<>>
    /\ runs < MaxRuns
    /\ \E start \in FirstStamps, pattern \in SignalPatterns :
          LET done(g) ==
                  /\ history' = g.h
                  /\ appended' = g.expected
          IN  done(update_blocks(pattern, start))
    /\ last' = [op |-> "update_blocks", outcome |-> "ok"]
    /\ runs' = runs + 1
    /\ UNCHANGED <<iter, singles, signal, updates, ovars>>

\* The positions (1-based, in appended) whose neighbourhood is searched:
\* those of QueryPositions, the last change of a first change byte (the
\* 128th) and the two after it, and two next to the last ones.
SignalQueryPositions ==
    QueryPositions
    \cup ({128, 129, 130, Len(appended) - 3, Len(appended) - 2}
          \cap (1..Len(appended)))

\* The timestamp indices searched: each such change, its predecessor and
\* its successor.
SignalQueryStamps ==
    IF appended = <<>> THEN {W(0), W(5)}
    ELSE UNION {{appended[p].timestamp_index,
                 WAdd(appended[p].timestamp_index, WOne)} \cup
                (IF appended[p].timestamp_index = WZero THEN {}
                 ELSE {WSub(appended[p].timestamp_index, WOne)}) :
                p \in SignalQueryPositions}

\* history.search_timestamp_index(t), in a build with or without overflow
\* checks.
SearchSignal ==
    /\ SignalMutable
    /\ \E t \in SignalQueryStamps, overflow_checks \in BOOLEAN :
          LET done(res) ==
                  last' = IF res = [outcome |-> "panic"]
                          THEN [op |-> "search_signal", outcome |-> "panic",
                                t |-> t]
                          ELSE [op |-> "search_signal", outcome |-> "ok",
                                t |-> t, res |-> res]
          IN  done(WaveformSignalHistory_search_timestamp_index(
                       history, t, overflow_checks))
    /\ UNCHANGED <<history, appended, iter, singles, runs, signal, updates, ovars>>

NextSignalHistory ==
    \/ UpdateBlockFirst
    \/ UpdateBlockNext
    \/ UpdateBlockDuplicate
    \/ UpdateBlocks
    \/ SearchSignal

SpecSignalHistory == Init /\ [][NextSignalHistory]_vars

\* ----------------------------------------------- signal vector state machine

\* The widths of the signals: one for each packing of less than a byte, and
\* above that one that is stored inline, one that takes a heap word for its
\* value and one for its mask, and one that takes two of each.
Widths == {1, 2, 3, 4, 9, 33, 65}

\* Bounds: the update calls on a signal of width 1, of width 2, and of any
\* other width.
MaxUpdatesBits2 == 4
MaxUpdatesBits4 == 3
MaxUpdatesOther == 2

MaxUpdates(width) ==
    CASE width = 1 -> MaxUpdatesBits2
      [] width = 2 -> MaxUpdatesBits4
      [] OTHER     -> MaxUpdatesOther

\* The bit widths of the vectors passed to a signal of a width.
BvWidths(width) == {1, width}

\* The arguments of the constructors: the u8 values of from_bits_two_state,
\* the u8 values and masks of from_bits_four_state, and the bytes at
\* position i (from 1) of a value and of a mask of from_be_bytes_*.
TwoStateBits == {1, 2}
FourStateBits == {<<0, 1>>, <<3, 2>>}
ValueByte(i) == (i * 74 + 91) % 256
MaskByte(i) == (i * 52 + 51) % 256

\* The n bytes of a vector of bit_width bits with the bits above bit_width
\* cleared.
Trimmed(bit_width, bytes) ==
    [bytes EXCEPT ![1] = @ % (2 ^ (bit_width - 8 * (Len(bytes) - 1)))]

ByteWidth(bit_width) == ((bit_width - 1) \div 8) + 1

ValueBytes(bit_width) ==
    {[i \in 1..ByteWidth(bit_width) |-> ValueByte(i)],
     Trimmed(bit_width, [i \in 1..ByteWidth(bit_width) |-> ValueByte(i)])}

MaskBytes(bit_width) ==
    {[i \in 1..ByteWidth(bit_width) |-> MaskByte(i)],
     Trimmed(bit_width, [i \in 1..ByteWidth(bit_width) |-> MaskByte(i)])}

InitVector ==
    /\ history = NewHistory
    /\ appended = <<>>
    /\ iter = NoIter
    /\ last = [op |-> "new", outcome |-> "ok"]
    /\ singles = 0
    /\ runs = 0
    /\ signal \in {WaveformSignalVector_new(width, overflow_checks) :
                      width \in Widths, overflow_checks \in BOOLEAN}
    /\ updates = <<>>
    /\ OthersIdle

\* signal.update(len, bv): the timestamp indices are 0, 1, 2, ...
Update(bv) ==
    /\ signal.vector_index < MaxUpdates(signal.width)
    /\ \E overflow_checks \in BOOLEAN :
          LET done(r) ==
                  /\ signal' = r.signal
                  /\ updates' = IF r.outcome = "ok"
                                THEN Append(updates, bv)
                                ELSE updates
          IN  done(update(signal, W(signal.vector_index), bv,
                          overflow_checks))
    /\ UNCHANGED <<hvars, ovars>>

UpdateBitsTwoState ==
    \E bit_width \in BvWidths(signal.width), value \in TwoStateBits :
        /\ bit_width <= WordBits
        /\ Update(from_bits_two_state(bit_width, value))

UpdateBitsFourState ==
    \E bit_width \in BvWidths(signal.width), vm \in FourStateBits :
        /\ bit_width <= HalfWordBits
        /\ Update(from_bits_four_state(bit_width, vm[1], vm[2]))

UpdateBytesTwoState ==
    \E value \in ValueBytes(signal.width) :
        Update(from_be_bytes_two_state(signal.width, value))

UpdateBytesFourState ==
    \E value \in ValueBytes(signal.width), mask \in MaskBytes(signal.width) :
        Update(from_be_bytes_four_state(signal.width, value, mask))

NextVector ==
    \/ UpdateBitsTwoState
    \/ UpdateBitsFourState
    \/ UpdateBytesTwoState
    \/ UpdateBytesFourState

SpecVector == InitVector /\ [][NextVector]_vars

\* ------------------------------------------------- real signal state machine

\* Bound: the update calls on the real signal.
MaxReals == 3

\* The values passed to update, as their bits: 0.0, 1.0, -2.5 and a NaN
\* with a payload.
RealValues ==
    { <<0, 0, 0, 0>>, <<16368, 0, 0, 0>>, <<49156, 0, 0, 0>>,
      <<32760, 0, 0, 1>> }

InitReal ==
    /\ HistoryIdle
    /\ VectorIdle
    /\ real = WaveformSignalReal_new
    /\ reals = <<>>
    /\ rlast = [op |-> "new"]
    /\ WaveformIdle
    /\ BitVectorIdle

\* signal.update(len, value): the timestamp indices are 0, 1, 2, ...
RealUpdate ==
    /\ real.vector_index < MaxReals
    /\ \E value \in RealValues, overflow_checks \in BOOLEAN :
          LET done(r) ==
                  /\ real' = r.signal
                  /\ reals' = IF r.outcome = "ok" THEN Append(reals, value)
                                                  ELSE reals
                  /\ rlast' = [op |-> "update", outcome |-> r.outcome]
          IN  done(WaveformSignalReal_update(real, W(real.vector_index), value,
                                             overflow_checks))
    /\ UNCHANGED <<hvars, vvars, wvars, bvars>>

\* signal.get_real(index), index < len()
RealGet ==
    /\ \E index \in 0..(real.vector_index - 1) :
          rlast' = [op |-> "get_real", index |-> index,
                    res |-> get_real(real, index)]
    /\ UNCHANGED <<hvars, vvars, wvars, bvars, real, reals>>

NextReal ==
    \/ RealUpdate
    \/ RealGet

SpecReal == InitReal /\ [][NextReal]_vars

\* ---------------------------------------------------- waveform state machine

\* Bounds: the timestamps stored and the vectors stored in each signal.
MaxTimestamps == 3
MaxVectorUpdates == 2

\* The timestamps passed to insert_timestamp and to the searches.
Timestamps == {1, 3, 4, 7}
QueryTimestamps == 0..8

\* The ids and widths passed to initialize_vector, and the ids passed to
\* update_vector.
InitializedIds == {0}
SignalWidths == {2, 9}
UpdatedIds == {0, 1}

\* The vectors passed to update_vector: of 1, 2, 3 and 10 bits.
PassedVectors ==
    { from_bits_two_state(1, 1), from_bits_four_state(2, 1, 2),
      from_bits_two_state(3, 5), from_be_bytes_two_state(10, <<2, 1>>) }

InitWaveform ==
    /\ HistoryIdle
    /\ VectorIdle
    /\ RealIdle
    /\ waveform = Waveform_new
    /\ wlast = [op |-> "new", outcome |-> "Ok"]
    /\ BitVectorIdle

\* The program has not panicked, and no search has been made (a search
\* leaves the waveform as it is, so that one search per waveform is all
\* there is to see).
Running == wlast.outcome # "panic" /\ wlast.op # "search_timestamp"

InitializeVector ==
    /\ Running
    /\ \E id \in InitializedIds \ DOMAIN waveform.vector_signals,
          width \in SignalWidths, overflow_checks \in BOOLEAN :
          LET done(r) ==
                  /\ waveform' = r.wf
                  /\ wlast' = [op |-> "initialize_vector",
                               outcome |-> r.outcome]
          IN  done(initialize_vector(waveform, id, width, overflow_checks))
    /\ UNCHANGED <<hvars, vvars, rvars, bvars>>

InsertTimestamp ==
    /\ Running
    /\ Len(waveform.timestamps) < MaxTimestamps
    /\ \E timestamp \in Timestamps :
          LET done(r) ==
                  /\ waveform' = r.wf
                  /\ wlast' = [op |-> "insert_timestamp", outcome |-> r.outcome,
                               timestamp |-> timestamp, before |-> waveform]
          IN  done(insert_timestamp(waveform, timestamp))
    /\ UNCHANGED <<hvars, vvars, rvars, bvars>>

\* update_vector(id, value), in a build with or without overflow checks.
UpdateVector ==
    /\ Running
    /\ \E id \in UpdatedIds, value \in PassedVectors,
          overflow_checks \in BOOLEAN :
          /\ id \in DOMAIN waveform.vector_signals
                => waveform.vector_signals[id].vector_index < MaxVectorUpdates
          /\ LET done(r) ==
                     /\ waveform' = r.wf
                     /\ wlast' = [op |-> "update_vector", id |-> id,
                                  value |-> value, before |-> waveform,
                                  outcome |-> r.outcome,
                                  res |-> [r EXCEPT !.wf = 0]]
             IN  done(update_vector(waveform, id, value, overflow_checks))
    /\ UNCHANGED <<hvars, vvars, rvars, bvars>>

SearchTimestamp ==
    /\ Running
    /\ \E timestamp \in QueryTimestamps, search_mode \in SearchModes :
          LET done(r) ==
                  wlast' = [op |-> "search_timestamp", outcome |-> r.outcome,
                            timestamp |-> timestamp, mode |-> search_mode,
                            res |-> r]
          IN  done(search_timestamp_mode(waveform, timestamp, search_mode))
    /\ UNCHANGED <<hvars, vvars, rvars, bvars, waveform>>

NextWaveform ==
    \/ InitializeVector
    \/ InsertTimestamp
    \/ UpdateVector
    \/ SearchTimestamp

SpecWaveform == InitWaveform /\ [][NextWaveform]_vars

\* --------------------------------------------------- bit vector state machine

\* Bound: the set_bit calls on the vector and its clone.
MaxSetBits == 2

\* The widths of the vectors: inline in both flavors, inline as two-state
\* only, and on the heap in both flavors, with one word and with two.
BitWidths == {1, 3, 32, 33, 64, 65}

\* The indices passed to set_bit on a vector of a width: the first, the
\* last, and two beyond the width.
SetIndices(width) ==
    {i \in {0, width - 1, width, width + WordBits} : i >= 0}

\* The Logic that a constructor gives index i: of new, of from_bits_* with
\* u8 arguments, and of from_be_bytes_* (bit 0 is the least significant bit
\* of the last byte).
LogicOfNew(width) == [i \in 0..(width - 1) |-> "Zero"]

LogicOfBits(width, value, mask) ==
    [i \in 0..(width - 1) |->
        IF i < 8 THEN LogicFrom(BitOf(value, i), BitOf(mask, i)) ELSE "Zero"]

LogicOfBytes(width, value, mask) ==
    [i \in 0..(width - 1) |->
        LogicFrom(BitOf(value[Len(value) - (i \div 8)], i % 8),
                  BitOf(mask[Len(mask) - (i \div 8)], i % 8))]

InitBitVector ==
    /\ HistoryIdle
    /\ VectorIdle
    /\ RealIdle
    /\ WaveformIdle
    /\ BitVectorIdle

\* A constructor has returned value: it is the vector under test.
Constructed(value, call, logic) ==
    /\ bitvec = NoBitVector
    /\ heap' = allocated(heap, value).mem
    /\ bitvec' = allocated(heap, value).bv
    /\ origin' = call
    /\ expected' = [bitvec |-> logic, copy |-> <<>>]
    /\ blast' = [op |-> "construct"]
    /\ UNCHANGED <<hvars, vvars, rvars, wvars, copy, sets>>

ConstructNew ==
    \E bit_width \in BitWidths, four_state \in BOOLEAN :
        Constructed(BitVector_new(bit_width, four_state),
                    [constructor |-> "new"], LogicOfNew(bit_width))

ConstructFromBits ==
    \E bit_width \in BitWidths :
        \/ /\ bit_width <= WordBits
           /\ \E value \in TwoStateBits \cup {255} :
                 Constructed(from_bits_two_state(bit_width, value),
                             [constructor |-> "from_bits_two_state"],
                             LogicOfBits(bit_width, value, 0))
        \/ /\ bit_width <= HalfWordBits
           /\ \E vm \in FourStateBits \cup {<<255, 255>>} :
                 Constructed(from_bits_four_state(bit_width, vm[1], vm[2]),
                             [constructor |-> "from_bits_four_state"],
                             LogicOfBits(bit_width, vm[1], vm[2]))

ConstructFromBeBytes ==
    \E bit_width \in BitWidths :
        \/ \E value \in ValueBytes(bit_width) :
              Constructed(from_be_bytes_two_state(bit_width, value),
                          [constructor |-> "from_be_bytes_two_state",
                           value |-> value],
                          LogicOfBytes(bit_width, value,
                                       Zeros(ByteWidth(bit_width))))
        \/ \E value \in ValueBytes(bit_width), mask \in MaskBytes(bit_width) :
              Constructed(from_be_bytes_four_state(bit_width, value, mask),
                          [constructor |-> "from_be_bytes_four_state",
                           value |-> value, mask |-> mask],
                          LogicOfBytes(bit_width, value, mask))

\* The byte strings passed to from_ascii and from_ascii_four_state: each
\* pattern repeated to each length, the first byte of the string being the
\* first of the pattern.  The lengths are those of an empty vector, of
\* inline vectors in both flavors, of the widest inline vectors and of the
\* narrowest ones on the heap, with one word and with two.
AsciiLengths == {0, 1, 4, 5, 32, 33, 64, 65}
AsciiPatterns ==
    { <<"1", "0", "0">>,
      <<"z", "x", "0", "1">>,
      <<"Z", "Z", "1">>,
      <<"1", "X", "2", "Z", "0">> }
AsciiString(pattern, n) == [i \in 1..n |-> pattern[((i - 1) % Len(pattern)) + 1]]
AsciiStrings ==
    {AsciiString(pattern, n) : pattern \in AsciiPatterns, n \in AsciiLengths}

\* The Logic that from_ascii and from_ascii_four_state give index i, which
\* is byte bytes.len() - i - 1 of the string.
LogicOfAscii(bytes, four_state) ==
    [i \in 0..(Len(bytes) - 1) |->
        LET byte == bytes[Len(bytes) - i]
        IN  IF byte = "1" THEN "One"
            ELSE IF four_state /\ byte \in {"X", "x"} THEN "Unknown"
            ELSE IF four_state /\ byte \in {"Z", "z"} THEN "HighImpedance"
            ELSE "Zero"]

ConstructFromAscii ==
    \E bytes \in AsciiStrings :
        \/ Constructed(from_ascii(bytes),
                       [constructor |-> "from_ascii", bytes |-> bytes],
                       LogicOfAscii(bytes, FALSE))
        \/ Constructed(from_ascii_four_state(bytes),
                       [constructor |-> "from_ascii_four_state",
                        bytes |-> bytes],
                       LogicOfAscii(bytes, TRUE))

\* A vector has been constructed and no query has been made on it (a query
\* leaves the vectors as they are, so that one query per state is all there
\* is to see).
Live == bitvec # NoBitVector /\ blast.op \in {"construct", "set_bit", "clone"}

\* The Logic that set_bit(index, bit) leaves at the indices of a vector.
LogicAfterSet(logic, four_state, index, bit) ==
    [i \in DOMAIN logic |->
        IF i # index THEN logic[i]
        ELSE IF four_state \/ bit = "One" THEN bit
        ELSE "Zero"]

\* target.set_bit(index, bit), target being the vector or its clone.
SetBit ==
    /\ Live
    /\ sets < MaxSetBits
    /\ \E on_copy \in {b \in BOOLEAN : b => copy # NoBitVector} :
          LET target == IF on_copy THEN copy ELSE bitvec
          IN  \E index \in SetIndices(target.bit_width), bit \in Logics :
                LET done(value) ==
                        /\ heap' = written(heap, target, value)
                        /\ bitvec' = IF on_copy \/ target.pointer
                                      THEN bitvec ELSE value
                        /\ copy' = IF on_copy /\ ~target.pointer
                                    THEN value ELSE copy
                        /\ expected' =
                              IF on_copy
                              THEN [expected EXCEPT !.copy =
                                       LogicAfterSet(@, target.four_state,
                                                     index, bit)]
                              ELSE [expected EXCEPT !.bitvec =
                                       LogicAfterSet(@, target.four_state,
                                                     index, bit)]
                        /\ blast' = [op |-> "set_bit", on_copy |-> on_copy,
                                     index |-> index, bit |-> bit,
                                     old |-> deref(heap, target),
                                     new |-> deref(heap', target')]
                IN  done(set_bit(deref(heap, target), index, bit))
    /\ sets' = sets + 1
    /\ UNCHANGED <<hvars, vvars, rvars, wvars, origin>>

\* copy = bitvec.clone()
Clone ==
    /\ Live
    /\ copy = NoBitVector
    /\ heap' = clone(heap, bitvec).mem
    /\ copy' = clone(heap, bitvec).bv
    /\ expected' = [expected EXCEPT !.copy = expected.bitvec]
    /\ blast' = [op |-> "clone"]
    /\ UNCHANGED <<hvars, vvars, rvars, wvars, bitvec, origin, sets>>

\* The vectors that bitvec is compared with: zeros, 0b101 in 3 and in 7 bits
\* in both flavors, with an unknown bit, and in 65 bits on the heap.
Operands ==
    { BitVector_new(1, FALSE), BitVector_new(33, TRUE),
      from_bits_two_state(3, 5), from_bits_two_state(7, 5),
      from_bits_four_state(3, 5, 0), from_bits_four_state(7, 5, 0),
      from_bits_four_state(7, 5, 2),
      from_bits_two_state(1, 1), from_bits_four_state(2, 1, 0),
      from_be_bytes_two_state(65, <<0, 0, 0, 0, 0, 0, 0, 0, 5>>),
      from_be_bytes_four_state(33, <<0, 0, 0, 0, 1>>, <<0, 0, 0, 0, 0>>) }

\* bitvec == other and other == bitvec
Compare ==
    /\ Live
    /\ \E other \in Operands :
          blast' = [op |-> "eq", other |-> other,
                    res |-> eq(deref(heap, bitvec), other),
                    sym |-> eq(other, deref(heap, bitvec))]
    /\ UNCHANGED <<hvars, vvars, rvars, wvars,
                   heap, bitvec, copy, origin, expected, sets>>

\* bitvec.to_be_bytes_two_state(value) on a two-state vector, value a
\* buffer of the bytes of its width (none for a width of 0, where the call
\* panics)
ToBeBytesTwoState ==
    /\ Live
    /\ ~bitvec.four_state
    /\ blast' = [op |-> "to_be_bytes_two_state"] @@
                to_be_bytes_two_state(deref(heap, bitvec),
                                      ByteWidth(bitvec.bit_width))
    /\ UNCHANGED <<hvars, vvars, rvars, wvars,
                   heap, bitvec, copy, origin, expected, sets>>

\* bitvec.to_be_bytes_four_state(value, mask)
ToBeBytesFourState ==
    /\ Live
    /\ blast' = [op |-> "to_be_bytes_four_state"] @@
                to_be_bytes_four_state(deref(heap, bitvec),
                                       ByteWidth(bitvec.bit_width))
    /\ UNCHANGED <<hvars, vvars, rvars, wvars,
                   heap, bitvec, copy, origin, expected, sets>>

\* bitvec.to_string_radix(radix); fresh: no set_bit has been called.
ToStringRadix ==
    /\ Live
    /\ \E radix \in Radixes :
          blast' = [op |-> "to_string_radix", radix |-> radix,
                    fresh |-> sets = 0,
                    res |-> to_string_radix(deref(heap, bitvec), radix)]
    /\ UNCHANGED <<hvars, vvars, rvars, wvars,
                   heap, bitvec, copy, origin, expected, sets>>

NextBitVector ==
    \/ ConstructNew
    \/ ConstructFromBits
    \/ ConstructFromBeBytes
    \/ ConstructFromAscii
    \/ SetBit
    \/ Clone
    \/ Compare
    \/ ToBeBytesTwoState
    \/ ToBeBytesFourState
    \/ ToStringRadix

SpecBitVector == InitBitVector /\ [][NextBitVector]_vars

\* ------------------------------------------------- reference definitions
\* What the specification says the operations return, computed from the
\* sequence of appended pairs.

StrictlyIncreasing(seq) ==
    \A i \in 1..(Len(seq) - 1) :
        WLt(seq[i].timestamp_index, seq[i + 1].timestamp_index)

\* The add_change calls made so far had strictly increasing timestamps.
ValidAppends == StrictlyIncreasing(appended)

\* Every gap between two consecutive appends is at most 2^56, a skip below
\* 2^56, which takes at most eight skip bytes.
ShortSkips ==
    \A i \in 1..(Len(appended) - 1) :
        WLe(WSub(appended[i + 1].timestamp_index, appended[i].timestamp_index),
            WPow2(56))

MaxOf(S) == CHOOSE x \in S : \A y \in S : y <= x
MinOf(S) == CHOOSE x \in S : \A y \in S : x <= y

\* The change with the greatest timestamp <= t.
RefBefore(seq, t) ==
    LET pick(S) == IF S = {} THEN None ELSE Some(seq[MaxOf(S)])
    IN  pick({i \in 1..Len(seq) : WLe(seq[i].timestamp_index, t)})

\* The change with the least timestamp >= t.
RefAfter(seq, t) ==
    LET pick(S) == IF S = {} THEN None ELSE Some(seq[MinOf(S)])
    IN  pick({i \in 1..Len(seq) : WLe(t, seq[i].timestamp_index)})

\* The change at t.
RefExact(seq, t) ==
    LET pick(S) == IF S = {} THEN None ELSE Some(seq[MinOf(S)])
    IN  pick({i \in 1..Len(seq) : seq[i].timestamp_index = t})

\* The change minimising |timestamp - t|, the earlier one on a tie: in a
\* strictly increasing sequence it is one of the two neighbours of t.
RefClosest(seq, t) ==
    LET pick(b, a) ==
            IF ~b.some THEN a
            ELSE IF ~a.some THEN b
            ELSE IF WLt(WSub(a.val.timestamp_index, t),
                        WSub(t, b.val.timestamp_index))
            THEN a
            ELSE b
    IN  pick(RefBefore(seq, t), RefAfter(seq, t))

RefSearch(seq, t, mode) ==
    CASE mode = "Before"  -> RefBefore(seq, t)
      [] mode = "After"   -> RefAfter(seq, t)
      [] mode = "Exact"   -> RefExact(seq, t)
      [] mode = "Closest" -> RefClosest(seq, t)

\* The pair that follows pair in seq, None after the last one.
RefFollowing(seq, pair) ==
    LET pick(S) ==
            IF S = {} \/ MaxOf(S) = Len(seq) THEN None
            ELSE Some(seq[MaxOf(S) + 1])
    IN  pick({i \in 1..Len(seq) : seq[i] = pair})

\* The offset of the first change byte of block in lo..hi-1, hi if none.
RECURSIVE FirstChangeByte(_, _, _)
FirstChangeByte(block, lo, hi) ==
    LET right(l) ==
            IF l < (lo + hi) \div 2 THEN l
            ELSE FirstChangeByte(block, (lo + hi) \div 2, hi)
    IN  IF lo >= hi THEN hi
        ELSE IF hi = lo + 1 THEN (IF block[lo + 1] >= 128 THEN lo ELSE hi)
        ELSE right(FirstChangeByte(block, lo, (lo + hi) \div 2))

\* The big-endian base-128 value of the n bytes of block from offset on,
\* as a machine word.
RECURSIVE Base128(_, _, _)
Base128(block, offset, n) ==
    IF n = 0 THEN WZero
    ELSE WOrLow7(WShl7(Base128(block, offset, n - 1)), block[offset + n])

\* The n + 1 consecutive pairs from index on.
Consecutive(index, n) ==
    [k \in 1..(n + 1) |->
        HistoryIndex(WAdd(index.timestamp_index, W(k - 1)),
                     WAdd(index.value_index, W(k - 1)))]

\* One token of the block as the specification reads it: s.index is the
\* next pair, s.out the pairs so far.
ref_decode_body(block, s) ==
    LET skip(end) ==
            IF end >= BLOCK_SIZE THEN [s EXCEPT !.done = TRUE]
            ELSE [s EXCEPT
                    !.offset = end,
                    !.index.timestamp_index =
                        WAdd(s.index.timestamp_index,
                             Base128(block, s.offset, end - s.offset))]
        change(n) ==
            [s EXCEPT
                !.offset = s.offset + 1,
                !.index = HistoryIndex(WAdd(s.index.timestamp_index, W(n + 1)),
                                       WAdd(s.index.value_index, W(n + 1))),
                !.out = s.out \o Consecutive(s.index, n)]
    IN  IF s.offset >= BLOCK_SIZE THEN [s EXCEPT !.done = TRUE]
        ELSE IF block[s.offset + 1] >= 128 THEN change(block[s.offset + 1] % 128)
        ELSE skip(FirstChangeByte(block, s.offset, BLOCK_SIZE))

RECURSIVE ref_decode_run(_, _, _)
ref_decode_run(block, s, n) ==
    IF n = 0 \/ s.done THEN s
    ELSE IF n = 1 THEN ref_decode_body(block, s)
    ELSE ref_decode_run(block, ref_decode_run(block, s, n \div 2), n - n \div 2)

\* The pairs of a block as the specification reads it.
RefDecode(block) ==
    ref_decode_run(block,
        [offset |-> HEADER_SIZE, index |-> get_index(block), out |-> <<>>,
         done |-> FALSE],
        BLOCK_SIZE).out

\* The pairs the block decoder yields from each block, and all of them, in
\* a build with or without overflow checks: [outcome, res], or Panic if the
\* decoder panics.
Decoded(h, k, overflow_checks) ==
    block_collect(get_block(h, k), block_into_iter(get_block(h, k)),
                  overflow_checks)

RECURSIVE DecodedUpTo(_, _, _)
DecodedUpTo(h, k, overflow_checks) ==
    LET joined(before, here) ==
            IF before = Panic \/ here = Panic THEN Panic
            ELSE [outcome |-> "ok", res |-> before.res \o here.res]
    IN  IF k < 0 THEN [outcome |-> "ok", res |-> <<>>]
        ELSE joined(DecodedUpTo(h, k - 1, overflow_checks),
                    Decoded(h, k, overflow_checks))

DecodedAll(h, overflow_checks) ==
    DecodedUpTo(h, get_block_count(h) - 1, overflow_checks)

\* No change has been appended at usize::MAX.
BelowMax == \A i \in 1..Len(appended) : appended[i].timestamp_index # WMax

\* No change has been appended within MAX_BLOCK_CHANGES of usize::MAX.
FarBelowMax ==
    \A i \in 1..Len(appended) :
        ~WAddOverflows(appended[i].timestamp_index, W(MAX_BLOCK_CHANGES))

\* The state follows an add_change or a generate_history call.
Appended == last.op \in {"add_change", "generate_history"}

\* ------------------------------------------------------------------ claims

\* C1: after add_change(t_i, i) for a non-empty strictly increasing
\* sequence of timestamps, iterating the history yields exactly the appended
\* pairs in order and then ends, whatever the gaps.
C1_IterateYieldsAppended ==
    (last.op = "collect" /\ last.outcome = "ok" /\ ValidAppends)
        => last.res = appended

\* The same where every skip is below 2^56.
IterateYieldsAppendedShortSkips ==
    (last.op = "collect" /\ last.outcome = "ok" /\ ValidAppends /\ ShortSkips)
        => last.res = appended

IterateShortSkipsWitness ==
    /\ last.op = "collect" /\ last.outcome = "ok" /\ ValidAppends /\ ShortSkips
    /\ get_block_count(history) >= 2
    /\ Len(last.res) > 100

\* The query lies between the first and the last appended timestamp.
InRange(t) ==
    /\ appended # <<>>
    /\ WLe(appended[1].timestamp_index, t)
    /\ WLe(t, LastStamp)

\* C2: for a history built from a strictly increasing sequence and a query
\* t with first <= t <= last, search_timestamp_index(t, mode) equals the
\* brute-force scan of the appended sequence in every mode.
C2_SearchMatchesScan ==
    (last.op = "search" /\ last.outcome = "ok" /\ ValidAppends /\ InRange(last.t))
        => last.res = RefSearch(appended, last.t, last.mode)

\* The same where every skip is below 2^56 and no change is within
\* MAX_BLOCK_CHANGES of usize::MAX.
SearchMatchesScanShortSkips ==
    (last.op = "search" /\ last.outcome = "ok" /\ ValidAppends /\ ShortSkips
        /\ FarBelowMax /\ InRange(last.t))
        => last.res = RefSearch(appended, last.t, last.mode)

\* C3: on a non-empty history and for a query t below the first change,
\* search_timestamp_index returns None for Exact and Before and the first
\* change of block 0 for After and Closest.
C3_SearchBelowFirst ==
    (last.op = "search" /\ last.outcome = "ok" /\ ValidAppends
        /\ WLt(last.t, appended[1].timestamp_index))
        => last.res = IF last.mode \in {"Exact", "Before"} THEN None
                      ELSE Some(appended[1])

\* C4: on a non-empty history and for a query t above the last appended
\* change, search_timestamp_index returns the last change for Before and
\* Closest and None for After and Exact.
C4_SearchAboveLast ==
    (last.op = "search" /\ last.outcome = "ok" /\ ValidAppends
        /\ WLt(LastStamp, last.t))
        => last.res = IF last.mode \in {"Before", "Closest"}
                      THEN Some(appended[Len(appended)])
                      ELSE None

\* The same where every skip is below 2^56 and no change is within
\* MAX_BLOCK_CHANGES of usize::MAX.
SearchAboveLastShortSkips ==
    (last.op = "search" /\ last.outcome = "ok" /\ ValidAppends /\ ShortSkips
        /\ FarBelowMax /\ WLt(LastStamp, last.t))
        => last.res = IF last.mode \in {"Before", "Closest"}
                      THEN Some(appended[Len(appended)])
                      ELSE None

\* The decoded pairs have strictly increasing timestamps and value indices
\* that grow by one.
DecodedInOrder(all) ==
    /\ all # Panic
    /\ \A i \in 1..(Len(all.res) - 1) :
          /\ WLt(all.res[i].timestamp_index, all.res[i + 1].timestamp_index)
          /\ all.res[i + 1].value_index = WAdd(all.res[i].value_index, WOne)

\* The headers have strictly increasing timestamps, and the value_index of
\* each is that of the block before plus the changes decoded from it.
HeadersInOrder(h, overflow_checks) ==
    \A k \in 0..(get_block_count(h) - 2) :
        /\ WLt(get_timestamp_index(get_block(h, k)),
               get_timestamp_index(get_block(h, k + 1)))
        /\ Decoded(h, k, overflow_checks) # Panic
        /\ get_value_index(get_block(h, k + 1)) =
               WAdd(get_value_index(get_block(h, k)),
                    W(Len(Decoded(h, k, overflow_checks).res)))

\* C5: after add_change calls with strictly increasing timestamps and
\* value_index the number of earlier appends, the pairs decoded across all
\* blocks have strictly increasing timestamps and value indices growing by
\* one, the block headers have strictly increasing timestamps, and each
\* header's value_index is that of the block before plus the number of
\* changes decoded from that block, in every build.
C5_DecodedOrder ==
    (Appended /\ ValidAppends)
        => \A overflow_checks \in BOOLEAN :
               /\ DecodedInOrder(DecodedAll(history, overflow_checks))
               /\ HeadersInOrder(history, overflow_checks)

\* The same where no change is at usize::MAX.
DecodedOrderBelowMax ==
    (Appended /\ ValidAppends /\ BelowMax)
        => \A overflow_checks \in BOOLEAN :
               /\ DecodedInOrder(DecodedAll(history, overflow_checks))
               /\ HeadersInOrder(history, overflow_checks)

\* The same in a build without overflow checks.
DecodedOrderWrapping ==
    (Appended /\ ValidAppends)
        => /\ DecodedInOrder(DecodedAll(history, FALSE))
           /\ HeadersInOrder(history, FALSE)

DecodedOrderWitness ==
    /\ last.op = "add_change" /\ last.outcome = "ok" /\ ValidAppends
    /\ get_block_count(history) >= 2
    /\ Len(appended) > 100
    /\ DecodedAll(history, TRUE) # Panic
    /\ Len(DecodedAll(history, TRUE).res) = Len(appended)

\* The only change is at usize::MAX, and a build with overflow checks
\* panics when it decodes it.
DecodePanicsWitness ==
    /\ last.op = "add_change" /\ last.outcome = "ok" /\ ValidAppends
    /\ appended = <<HistoryIndex(WMax, WZero)>>
    /\ DecodedAll(history, TRUE) = Panic
    /\ DecodedAll(history, FALSE) = [outcome |-> "ok", res |-> appended]

\* C6: add_change with the timestamp_index of the previous append is a
\* fatal error, raised before the block array or a cursor field is changed.
C6_DuplicateIsFatal ==
    (last.op = "add_change" /\ last.dup)
        => last.outcome = "panic" /\ history = last.old

\* The same where the previous timestamp index is below 2^63.
DuplicateIsFatalBelow2p63 ==
    (last.op = "add_change" /\ last.dup /\ ~WIsNegative(last.t))
        => last.outcome = "panic" /\ history = last.old

\* last is a seek on a new iterator, or the next() that follows one that
\* returned a pair.
FreshSeek == last.op = "seek" /\ last.before.op = "into_iter"
NextAfterFreshSeek ==
    /\ last.op = "next"
    /\ last.before.op = "seek"
    /\ last.before.before.op = "into_iter"
    /\ last.before.res.some

\* C7: on a new iterator over a non-empty history seek(t) returns the pair
\* with the greatest timestamp <= t, None if t is below the first, and
\* after a seek that returned a pair next() yields the pair that follows
\* it, None after the last.
C7_SeekThenNext ==
    /\ (FreshSeek /\ ValidAppends) => last.res = RefBefore(appended, last.t)
    /\ (NextAfterFreshSeek /\ ValidAppends)
          => last.res = RefFollowing(appended, last.before.res.val)

\* The same where every skip is below 2^56 and the call returns.
SeekThenNextShortSkips ==
    /\ (FreshSeek /\ last.outcome = "ok" /\ ValidAppends /\ ShortSkips)
          => last.res = RefBefore(appended, last.t)
    /\ (NextAfterFreshSeek /\ last.outcome = "ok" /\ ValidAppends
           /\ ShortSkips)
          => last.res = RefFollowing(appended, last.before.res.val)

\* C8: decoding a block starts at its header pair; a change byte with low
\* bits n yields n + 1 consecutive pairs; a run of skip bytes before a
\* change byte advances the timestamp by its big-endian base-128 value;
\* skip bytes with no later change byte yield nothing.
C8_BlockDecode ==
    Appended =>
        \A k \in 0..(get_block_count(history) - 1), overflow_checks \in BOOLEAN :
            Decoded(history, k, overflow_checks) =
                [outcome |-> "ok", res |-> RefDecode(get_block(history, k))]

\* The same where every skip is below 2^56 and no change is at usize::MAX.
BlockDecodeShortSkips ==
    (Appended /\ ShortSkips /\ BelowMax) =>
        \A k \in 0..(get_block_count(history) - 1), overflow_checks \in BOOLEAN :
            Decoded(history, k, overflow_checks) =
                [outcome |-> "ok", res |-> RefDecode(get_block(history, k))]

\* The last add_change wrote a skip into the current block: the history
\* was not empty, the gap is above 1 and no block was opened.
WroteSkip ==
    /\ last.op = "add_change" /\ last.outcome = "ok" /\ ~last.dup
    /\ last.old.block_index >= 0
    /\ history.block_index = last.old.block_index
    /\ last.t # WAdd(last.old.timestamp_index_last, WOne)

\* The bytes written are D - 1 in the least number of base-128 bytes, high
\* bits clear, and a 0x80; the decoder reads them back as D - 1 in every
\* build.
SkipRoundTrip(block, offset, n, skips) ==
    /\ n >= 1
    /\ \A i \in 1..n : block[offset + i] < 128
    /\ block[offset + 1] # 0
    /\ Base128(block, offset, n) = skips
    /\ block[offset + n + 1] = 128
    /\ \A overflow_checks \in BOOLEAN :
          get_skips(block, offset, overflow_checks) =
              [skip_bytes |-> n, skips |-> skips]

\* C9: for a gap D > 1 whose skip fits in the current block add_change
\* writes D - 1 as the least number of big-endian base-128 skip bytes and a
\* 0x80, and get_skips reads the skip bytes back as D - 1, for every D - 1
\* of a machine word.
C9_SkipRoundTrip ==
    WroteSkip =>
        SkipRoundTrip(get_block(history, history.block_index),
                      last.old.block_offset,
                      history.block_offset - last.old.block_offset - 1,
                      WSub(WSub(last.t, last.old.timestamp_index_last), WOne))

\* The same where every skip is below 2^56.
SkipRoundTripShortSkips ==
    (WroteSkip /\ ShortSkips) =>
        SkipRoundTrip(get_block(history, history.block_index),
                      last.old.block_offset,
                      history.block_offset - last.old.block_offset - 1,
                      WSub(WSub(last.t, last.old.timestamp_index_last), WOne))

\* No storage bit of bv at a position at or above its bit_width is set.
CleanWord(w, from) == \A i \in (from + 1)..WordBits : w[i] = 0

Clean(bv) ==
    IF bv.pointer
    THEN \A k \in 1..Len(bv.payload) :
            k % get_vector_words_size(bv) = 0
                => CleanWord(bv.payload[k], ((bv.bit_width - 1) % WordBits) + 1)
    ELSE IF bv.four_state
    THEN \A i \in 1..WordBits :
            (i > bv.bit_width /\ (i <= HalfWordBits \/ i > HalfWordBits + bv.bit_width))
                => bv.payload[i] = 0
    ELSE CleanWord(bv.payload, bv.bit_width)

\* Entry i (from 0) of the signal reads back as the vector passed to the
\* i-th update, zero-extended to the signal's width.
ReadsBack(i) ==
    /\ get_bitvector(signal, i).bit_width = signal.width
    /\ \A k \in 0..(signal.width - 1) :
          get_bit(get_bitvector(signal, i), k) = get_bit(updates[i + 1], k)

\* C10: after any sequence of update calls with vectors of 1 to width bits,
\* get_bitvector(i) for every i < len() has the signal's width and equals
\* bit for bit, zero-extended, the i-th vector passed to update, in every
\* packing mode; hence a later update never changes an earlier entry.
C10_VectorRoundTrip ==
    \A i \in 0..(signal.vector_index - 1) : ReadsBack(i)

\* The same for the vectors without a storage bit set at or above their width.
VectorRoundTripClean ==
    \A i \in 0..(signal.vector_index - 1) : Clean(updates[i + 1]) => ReadsBack(i)

\* A narrow and a full-width clean vector, both with a bit set, are stored
\* and a byte of the payload is shared or a second entry follows.
VectorRoundTripCleanWitness ==
    /\ signal.vector_index >= 2
    /\ \A i \in 1..Len(updates) : Clean(updates[i])
    /\ \E i \in 1..Len(updates) : get_bit(updates[i], 0) # "Zero"
    /\ \E i \in 1..Len(updates) :
          /\ updates[i].bit_width = signal.width
          /\ get_bit(updates[i], signal.width - 1) # "Zero"

\* C11: after any sequence of update calls on a real signal, get_real(i) for
\* every i < len() returns the i-th value passed to update, read back from
\* the 8 big-endian bytes of that entry.
C11_GetRealReturnsValue ==
    rlast.op = "get_real"
        => /\ rlast.res.outcome = "ok"
           /\ rlast.res.value = reals[rlast.index + 1]
           /\ f64_to_be_bytes(rlast.res.value) =
                  SubSeq(real.vectors, 8 * rlast.index + 1, 8 * rlast.index + 8)

\* update stores the 8 big-endian bytes of each value, entry i at byte 8 * i.
RealEntriesStored ==
    /\ Len(real.vectors) = 8 * Len(reals)
    /\ real.vector_index = Len(reals)
    /\ \A i \in 1..Len(reals) :
          f64_from_be_bytes(SubSeq(real.vectors, 8 * i - 7, 8 * i)) = reals[i]

\* C12: update_vector with a vector wider than the signal's declared width
\* returns InvalidWidth with the id, the expected and the actual width, and
\* leaves the waveform as it was: the signal's history, its packed payload
\* and its len() are unchanged.
C12_InvalidWidthRejected ==
    (/\ wlast.op = "update_vector"
     /\ wlast.id \in DOMAIN wlast.before.vector_signals
     /\ wlast.value.bit_width > wlast.before.vector_signals[wlast.id].width)
        => /\ wlast.res =
                 [outcome |-> "InvalidWidth", id |-> wlast.id,
                  expected |-> wlast.before.vector_signals[wlast.id].width,
                  actual |-> wlast.value.bit_width, wf |-> 0]
           /\ waveform = wlast.before
           /\ waveform.vector_signals[wlast.id].history =
                  wlast.before.vector_signals[wlast.id].history
           /\ waveform.vector_signals[wlast.id].vectors =
                  wlast.before.vector_signals[wlast.id].vectors
           /\ waveform.vector_signals[wlast.id].vector_index =
                  wlast.before.vector_signals[wlast.id].vector_index

\* A vector of too many bits was rejected by a signal that holds an entry.
C12_Witness ==
    /\ wlast.op = "update_vector"
    /\ wlast.outcome = "InvalidWidth"
    /\ waveform.vector_signals[wlast.id].vector_index >= 1
    /\ Len(waveform.vector_signals[wlast.id].vectors) >= 1

\* C13: insert_timestamp(ts) returns DecreasingTimestamp and stores nothing
\* if ts is below the last stored timestamp, returns Ok and stores nothing
\* if ts equals it, and appends ts if ts is greater or the array is empty;
\* hence the timestamp array is strictly increasing in every state.
C13_InsertTimestamp ==
    /\ \A i \in 1..(Len(waveform.timestamps) - 1) :
          waveform.timestamps[i] < waveform.timestamps[i + 1]
    /\ wlast.op = "insert_timestamp"
          => LET old == wlast.before.timestamps
                 ts == wlast.timestamp
             IN  IF old # <<>> /\ ts < old[Len(old)]
                 THEN /\ wlast.outcome = "DecreasingTimestamp"
                      /\ waveform.timestamps = old
                 ELSE IF old # <<>> /\ ts = old[Len(old)]
                 THEN /\ wlast.outcome = "Ok"
                      /\ waveform.timestamps = old
                 ELSE /\ wlast.outcome = "Ok"
                      /\ waveform.timestamps = Append(old, ts)

\* A timestamp equal to the last of two stored ones was passed and dropped.
C13_Witness ==
    /\ wlast.op = "insert_timestamp"
    /\ wlast.outcome = "Ok"
    /\ Len(wlast.before.timestamps) >= 2
    /\ wlast.timestamp = wlast.before.timestamps[Len(wlast.before.timestamps)]
    /\ waveform.timestamps = wlast.before.timestamps

\* The index (from 0) that a scan of the timestamps gives for t in a mode.
RefTimestampSearch(timestamps, t, mode) ==
    LET indices == 0..(Len(timestamps) - 1)
        dist(i) == IF timestamps[i + 1] > t THEN timestamps[i + 1] - t
                                            ELSE t - timestamps[i + 1]
        before == {i \in indices : timestamps[i + 1] <= t}
        after == {i \in indices : timestamps[i + 1] >= t}
        exact == {i \in indices : timestamps[i + 1] = t}
        closest == {i \in indices :
                       \A j \in indices :
                           dist(i) < dist(j) \/ (dist(i) = dist(j) /\ i <= j)}
    IN  CASE mode = "Before" ->
                 IF before = {} THEN None ELSE Some(MaxOf(before))
          [] mode = "After" ->
                 IF after = {} THEN None ELSE Some(MinOf(after))
          [] mode = "Exact" ->
                 IF exact = {} THEN None ELSE Some(MinOf(exact))
          [] OTHER ->
                 IF closest = {} THEN None ELSE Some(MinOf(closest))

\* C14: on the strictly increasing timestamp array the search returns for
\* t: in mode Before the index of the greatest timestamp <= t, in mode
\* After the index of the least timestamp >= t, in mode Exact the index of
\* t, None if there is no such timestamp; in mode Closest the index of the
\* nearest timestamp, the earlier one on a tie, which is always Some on a
\* non-empty array.
C14_SearchTimestamp ==
    wlast.op = "search_timestamp"
        => /\ wlast.res.outcome = "ok"
           /\ wlast.res.res =
                  RefTimestampSearch(waveform.timestamps, wlast.timestamp,
                                     wlast.mode)
           /\ (wlast.mode = "Closest" /\ waveform.timestamps # <<>>)
                 => wlast.res.res.some

\* The same on a non-empty array.
SearchTimestampNonEmpty ==
    (wlast.op = "search_timestamp" /\ waveform.timestamps # <<>>)
        => /\ wlast.res.outcome = "ok"
           /\ wlast.res.res =
                  RefTimestampSearch(waveform.timestamps, wlast.timestamp,
                                     wlast.mode)
           /\ wlast.mode = "Closest" => wlast.res.res.some

\* The search before (search_timestamp of src/src/lib.rs) panicked on an
\* array without a timestamp.
SearchTimestampEmptyWitness ==
    /\ wlast.op = "search_timestamp" /\ wlast.mode = "Before"
    /\ waveform.timestamps = <<>>
    /\ wlast.res.outcome = "panic"

\* A search in mode Closest for a timestamp as far from the stored one
\* before it as from the one after it returned the earlier one.
SearchTimestampTieWitness ==
    /\ wlast.op = "search_timestamp"
    /\ wlast.mode = "Closest"
    /\ Len(waveform.timestamps) >= 3
    /\ wlast.res.outcome = "ok"
    /\ wlast.res.res.some
    /\ wlast.res.res.val + 2 <= Len(waveform.timestamps)
    /\ waveform.timestamps[wlast.res.res.val + 1] < wlast.timestamp
    /\ wlast.timestamp - waveform.timestamps[wlast.res.res.val + 1] =
           waveform.timestamps[wlast.res.res.val + 2] - wlast.timestamp

\* C15: a BitVector of width w behaves as an array of w Logic values: after
\* any sequence of set_bit calls get_bit(i), i < w, is the value last
\* written to index i (for a two-state vector One if it was One and Zero
\* otherwise) or the constructor's value if index i was never written, a
\* write changing no other index; for inline and heap-backed vectors alike,
\* at widths 32, 33, 64 and 65 among others.
C15_BitArray ==
    bitvec # NoBitVector
        => \A i \in 0..(bitvec.bit_width - 1) :
              get_bit(deref(heap, bitvec), i) = expected.bitvec[i]

\* Two bits of a two-state vector on the heap were written, the last one
\* with a value other than Zero and One, and a bit of it is One.
C15_Witness ==
    /\ blast.op = "set_bit" /\ ~blast.on_copy
    /\ sets = 2
    /\ bitvec.pointer /\ ~bitvec.four_state
    /\ blast.index < bitvec.bit_width
    /\ blast.bit \in {"Unknown", "HighImpedance"}
    /\ \E i \in 0..(bitvec.bit_width - 1) : expected.bitvec[i] = "One"

\* C16: for every index i >= bit_width, get_bit(i) is Zero and
\* set_bit(i, l) changes nothing: the width, the flavor and every get_bit
\* result are as before the call; neither call fails.
C16_OutOfRange ==
    /\ bitvec # NoBitVector
          => \A i \in {bitvec.bit_width, bitvec.bit_width + 1,
                        bitvec.bit_width + WordBits - 1,
                        bitvec.bit_width + WordBits} :
                get_bit(deref(heap, bitvec), i) = "Zero"
    /\ (blast.op = "set_bit" /\ blast.index >= blast.old.bit_width)
          => /\ blast.new.bit_width = blast.old.bit_width
             /\ blast.new.four_state = blast.old.four_state
             /\ \A i \in 0..(blast.old.bit_width + WordBits) :
                   get_bit(blast.new, i) = get_bit(blast.old, i)

\* A bit beyond the width of a vector on the heap that holds a bit other
\* than Zero was set to a value other than Zero.
C16_Witness ==
    /\ blast.op = "set_bit"
    /\ blast.index >= blast.old.bit_width
    /\ blast.bit # "Zero"
    /\ blast.old.pointer
    /\ \E i \in 0..(blast.old.bit_width - 1) : get_bit(blast.old, i) # "Zero"

\* C17: two BitVectors compare equal if and only if get_bit agrees at every
\* index below the larger of the two widths (get_bit of the shorter being
\* Zero beyond its width), whatever their flavors, and the comparison is
\* symmetric.
C17_Equality ==
    blast.op = "eq"
        => LET a == deref(heap, bitvec)
               larger == IF a.bit_width > blast.other.bit_width
                         THEN a.bit_width ELSE blast.other.bit_width
           IN  /\ blast.res = (\A i \in 0..(larger - 1) :
                                 get_bit(a, i) = get_bit(blast.other, i))
               /\ blast.sym = blast.res

\* A vector compared equal to one of another width and another flavor,
\* both with a bit set.
C17_Witness ==
    /\ blast.op = "eq"
    /\ blast.res
    /\ blast.other.bit_width # bitvec.bit_width
    /\ blast.other.four_state # bitvec.four_state
    /\ get_bit(blast.other, 0) = "One"

\* C18: the clone of a BitVector has its width, flavor and bits and shares
\* no storage with it: after any later set_bit on either of the two, the
\* get_bit results of the other are as they were, for heap-backed and
\* inline vectors alike.
C18_CloneIsDeep ==
    copy # NoBitVector
        => /\ copy.bit_width = bitvec.bit_width
           /\ copy.four_state = bitvec.four_state
           /\ copy.pointer = bitvec.pointer
           /\ copy.pointer => copy.payload # bitvec.payload
           /\ blast.op = "clone"
                 => \A i \in 0..(bitvec.bit_width - 1) :
                       get_bit(deref(heap, copy), i) =
                           get_bit(deref(heap, bitvec), i)
           /\ \A i \in 0..(bitvec.bit_width - 1) :
                 /\ get_bit(deref(heap, copy), i) = expected.copy[i]
                 /\ get_bit(deref(heap, bitvec), i) = expected.bitvec[i]

\* A vector on the heap was cloned, and a bit was then set in one of the
\* two to a value that the other does not hold there.
C18_Witness ==
    /\ copy # NoBitVector
    /\ copy.pointer
    /\ blast.op = "set_bit"
    /\ blast.index < bitvec.bit_width
    /\ expected.copy[blast.index] # expected.bitvec[blast.index]

\* C19: every storage bit of a BitVector at a position at or above its
\* bit_width, in the value bits and in the mask bits, is zero, whatever
\* constructor made it and whatever set_bit calls followed.
C19_HighBitsZero ==
    bitvec # NoBitVector => Clean(deref(heap, bitvec))

\* set_bit keeps the storage bits at or above the width as they are.
SetBitKeepsHighBits ==
    (blast.op = "set_bit" /\ Clean(blast.old)) => Clean(blast.new)

\* C20: for every width, both flavors and every byte content of
\* ceil(width / 8) bytes, to_be_bytes_two_state after
\* from_be_bytes_two_state and to_be_bytes_four_state after
\* from_be_bytes_four_state return the original value bytes (and mask
\* bytes), bit index 0 being the least significant bit of the last byte;
\* for inline and heap-backed widths.
C20_BytesRoundTrip ==
    /\ (blast.op = "to_be_bytes_two_state" /\ sets = 0
           /\ origin.constructor = "from_be_bytes_two_state")
          => /\ blast.value = origin.value
             /\ \A i \in 0..(bitvec.bit_width - 1) :
                   get_bit(deref(heap, bitvec), i) =
                       LogicFrom(BitOf(blast.value[Len(blast.value)
                                                   - (i \div 8)], i % 8), 0)
    /\ (blast.op = "to_be_bytes_four_state" /\ sets = 0
           /\ origin.constructor = "from_be_bytes_four_state")
          => /\ blast.value = origin.value
             /\ blast.mask = origin.mask
             /\ \A i \in 0..(bitvec.bit_width - 1) :
                   get_bit(deref(heap, bitvec), i) =
                       LogicFrom(BitOf(blast.value[Len(blast.value)
                                                   - (i \div 8)], i % 8),
                                 BitOf(blast.mask[Len(blast.mask)
                                                  - (i \div 8)], i % 8))

\* The bytes of a four-state vector of 65 bits, with bits set above the
\* width in the first byte of the value and of the mask, were read back.
C20_Witness ==
    /\ blast.op = "to_be_bytes_four_state" /\ sets = 0
    /\ origin.constructor = "from_be_bytes_four_state"
    /\ bitvec.bit_width = 65
    /\ origin.value[1] > 1 /\ origin.mask[1] > 1
    /\ origin.value # origin.mask
    /\ blast.value = origin.value

\* The pairs decoded from the last block of a history with a block, and
\* the last of them.
DecodedLast(h, overflow_checks) ==
    Decoded(h, get_block_count(h) - 1, overflow_checks)
LastDecoded(h, overflow_checks) ==
    DecodedLast(h, overflow_checks).res[Len(DecodedLast(h, overflow_checks).res)]

\* t is greater than the header timestamp of the last block plus
\* MAX_BLOCK_CHANGES, a sum of integers: no t is greater than a sum that
\* does not fit in a machine word.
BeyondLastBlock(h, t) ==
    LET beyond(header) ==
            /\ ~WAddOverflows(header, W(MAX_BLOCK_CHANGES))
            /\ WLt(WAdd(header, W(MAX_BLOCK_CHANGES)), t)
    IN  beyond(get_timestamp_index(get_block(h, get_block_count(h) - 1)))

\* last is a search, on a history with a block, for a target beyond the
\* last block's header by more than MAX_BLOCK_CHANGES.
SearchedBeyondLastBlock ==
    /\ last.op = "search" /\ ValidAppends /\ appended # <<>>
    /\ BeyondLastBlock(history, last.t)

\* C23 as stated: whenever t is greater than the last block's header
\* timestamp plus MAX_BLOCK_CHANGES, search_timestamp_index returns None for
\* Exact and After and the last decoded change of the last block for Before
\* and Closest.
SearchBeyondLastBlockAsStated ==
    SearchedBeyondLastBlock
        => /\ last.outcome = "ok"
           /\ DecodedLast(history, last.checks) # Panic
           /\ last.res = IF last.mode \in {"Exact", "After"} THEN None
                         ELSE Some(LastDecoded(history, last.checks))

\* C23: whenever t is greater than the last block's header timestamp plus
\* MAX_BLOCK_CHANGES and greater than the timestamp of every change decoded
\* from the last block, search_timestamp_index returns None for Exact and
\* After and the last decoded change of the last block for Before and
\* Closest, in every build.
C23_SearchBeyondLastBlock ==
    SearchedBeyondLastBlock
        => /\ last.outcome = "ok"
           /\ DecodedLast(history, last.checks) # Panic
           /\ WLt(LastDecoded(history, last.checks).timestamp_index, last.t)
                 => last.res =
                        IF last.mode \in {"Exact", "After"} THEN None
                        ELSE Some(LastDecoded(history, last.checks))

\* A search in mode Before, in a build with overflow checks, for a target
\* beyond the last header by more than MAX_BLOCK_CHANGES and beyond the
\* changes of the last block, which has changes after its header: the
\* search returned the last of them.
C23_Witness ==
    /\ SearchedBeyondLastBlock
    /\ last.mode = "Before" /\ last.checks
    /\ last.outcome = "ok"
    /\ DecodedLast(history, TRUE) # Panic
    /\ Len(DecodedLast(history, TRUE).res) >= 2
    /\ WLt(LastDecoded(history, TRUE).timestamp_index, last.t)
    /\ last.res = Some(LastDecoded(history, TRUE))

\* A search in mode After for a target beyond the last header by more than
\* MAX_BLOCK_CHANGES and before a change of the last block, which it returns.
SearchBeyondFindsAfterWitness ==
    /\ SearchedBeyondLastBlock
    /\ last.mode = "After" /\ last.outcome = "ok"
    /\ last.res.some
    /\ WLt(last.t, last.res.val.timestamp_index)

\* The timestamp index of the append before the last one.
PrevStamp == appended[Len(appended) - 1].timestamp_index

\* The source's index of the write offset of the current block; the byte
\* before it is element WriteIndex(h) of h.blocks.
WriteIndex(h) == h.block_index * BLOCK_SIZE + h.block_offset

\* new is old with a block opened for (t, v): header, one change byte 0x80,
\* zeros, and the offset at HEADER_SIZE + 1.
OpenedBlock(old, new, t, v) ==
    /\ new.blocks = old.blocks \o ToBeBytes(t) \o ToBeBytes(v) \o <<128>>
                        \o [k \in 1..(BLOCK_SIZE - HEADER_SIZE - 1) |-> 0]
    /\ new.block_index = old.block_index + 1
    /\ new.block_offset = HEADER_SIZE + 1

\* What C24 requires of an append with a gap of 1.
GapOneEffect(old, new, t, v) ==
    IF old.blocks[WriteIndex(old)] % 128 < 127
    THEN /\ new.blocks = [old.blocks EXCEPT ![WriteIndex(old)] = @ + 1]
         /\ new.block_index = old.block_index
         /\ new.block_offset = old.block_offset
    ELSE IF old.block_offset < BLOCK_SIZE
    THEN /\ new.blocks = [old.blocks EXCEPT ![WriteIndex(old) + 1] = 128]
         /\ new.block_index = old.block_index
         /\ new.block_offset = old.block_offset + 1
    ELSE OpenedBlock(old, new, t, v)

\* last is an add_change with a gap of exactly 1 on a non-empty history.
AddedWithGapOne ==
    /\ last.op = "add_change" /\ last.outcome = "ok" /\ ValidAppends
    /\ Len(appended) >= 2
    /\ last.t = WAdd(PrevStamp, WOne)

\* C24: add_change with a gap of exactly 1 on a non-empty history
\* increments the change byte before the write offset when its low 7 bits
\* are below 127 (block_offset unchanged); otherwise, if the block has a
\* free byte, it writes a new 0x80 and advances block_offset by 1; otherwise
\* it opens a new block with header (timestamp_index, value_index), first
\* token 0x80 and offset 17.  A new block is opened only when all 496 token
\* bytes of the current block are used.
C24_GapOne ==
    AddedWithGapOne
        => /\ GapOneEffect(last.old, history, last.t, last.v)
           /\ history.block_index # last.old.block_index
                 => last.old.block_offset = BLOCK_SIZE

\* The same where the previous timestamp index is below 2^63.
GapOneBelow2p63 ==
    (AddedWithGapOne /\ ~WIsNegative(PrevStamp))
        => /\ GapOneEffect(last.old, history, last.t, last.v)
           /\ history.block_index # last.old.block_index
                 => last.old.block_offset = BLOCK_SIZE

\* Below 2^63 each of the three cases happens.
GapOneIncrements ==
    /\ AddedWithGapOne /\ ~WIsNegative(PrevStamp)
    /\ history.block_offset = last.old.block_offset
    /\ history.blocks[WriteIndex(history)] > 129
GapOneNewByte ==
    /\ AddedWithGapOne /\ ~WIsNegative(PrevStamp)
    /\ history.block_index = last.old.block_index
    /\ history.block_offset = last.old.block_offset + 1
GapOneNewBlock ==
    /\ AddedWithGapOne /\ ~WIsNegative(PrevStamp)
    /\ history.block_index = last.old.block_index + 1

\* The least number of base-128 digits, at least one, that hold skips.
RefSkipLen(skips) ==
    MinOf({n \in 1..9 : WLt(skips, WPow2(7 * n))} \cup {10})

\* The current block of old has room for n skip bytes and a change byte.
Room(old, n) == BLOCK_SIZE - old.block_offset >= n + 1

\* new is old with the n base-128 digits of skips and a 0x80 written at the
\* write offset of the current block, and nothing else changed.
WroteSkipBytes(old, new, skips, n) ==
    /\ new.block_index = old.block_index
    /\ new.block_offset = old.block_offset + n + 1
    /\ Len(new.blocks) = Len(old.blocks)
    /\ \A i \in 1..n : new.blocks[WriteIndex(old) + i] < 128
    /\ Base128(new.blocks, WriteIndex(old), n) = skips
    /\ new.blocks[WriteIndex(old) + n + 1] = 128
    /\ \A j \in 1..Len(old.blocks) :
          (j <= WriteIndex(old) \/ j > WriteIndex(old) + n + 1)
              => new.blocks[j] = old.blocks[j]

\* last is an add_change with a gap above 1 on a non-empty history.
AddedWithSkip ==
    /\ last.op = "add_change" /\ last.outcome = "ok" /\ ValidAppends
    /\ Len(appended) >= 2
    /\ last.t # WAdd(PrevStamp, WOne)

SkipFitsOrNewBlock(old, new, t, v, skips) ==
    /\ new.block_index = old.block_index
          => /\ Room(old, RefSkipLen(skips))
             /\ WroteSkipBytes(old, new, skips, RefSkipLen(skips))
    /\ new.block_index # old.block_index => OpenedBlock(old, new, t, v)
    /\ ~Room(old, RefSkipLen(skips)) => OpenedBlock(old, new, t, v)

\* C25: add_change with a gap above 1 writes the skip bytes and the
\* trailing 0x80 into the current block only if the block has room for all
\* of them; if it has not, the current block stays byte for byte as it was
\* and a new block is opened whose header is the absolute (timestamp_index,
\* value_index), with no skip encoded for that change.
C25_SkipFitsOrNewBlock ==
    AddedWithSkip
        => SkipFitsOrNewBlock(last.old, history, last.t, last.v,
                              WSub(WSub(last.t, PrevStamp), WOne))

\* A skip that does not fit in the free bytes left in the current block.
C25_Witness ==
    /\ AddedWithSkip
    /\ last.old.block_offset < BLOCK_SIZE
    /\ ~Room(last.old, RefSkipLen(WSub(WSub(last.t, PrevStamp), WOne)))
    /\ history.block_index = last.old.block_index + 1
    /\ history.block_offset = HEADER_SIZE + 1

\* A skip that fits and is written.
SkipFitsWitness ==
    /\ AddedWithSkip
    /\ history.block_index = last.old.block_index
    /\ history.block_offset > last.old.block_offset + 8

\* The appended pairs that an iterator which has passed pos pairs has not
\* yielded.
Remaining(pos) == SubSeq(appended, pos + 1, Len(appended))

\* What C26 requires of a seek(t) from position from that returned res and
\* left the iterator as it: res is the last remaining pair at or before t,
\* and the iterator is just after it.
SeekFromAnywhere(from, t, res, it) ==
    LET follows(n) == n # Panic /\ n.res = RefFollowing(appended, res.val)
    IN  /\ res = RefBefore(Remaining(from), t)
        /\ res.some => follows(iter_next(history, it, last.checks))

\* C26: for an iterator in any state reached by earlier next() and seek()
\* calls, seek(t) returns the last not-yet-yielded pair with a timestamp
\* <= t and leaves the iterator just after it, and returns None only if no
\* not-yet-yielded pair has a timestamp <= t; also when the iterator has
\* just yielded the last pair of a block and the target is in a later block.
C26_SeekAnywhere ==
    (last.op = "seek" /\ ValidAppends)
        => /\ last.outcome = "ok"
           /\ SeekFromAnywhere(last.from, last.t, last.res, iter.it)

\* The same where every skip is below 2^56.
SeekAnywhereShortSkips ==
    (last.op = "seek" /\ ValidAppends /\ ShortSkips)
        => /\ last.outcome = "ok"
           /\ SeekFromAnywhere(last.from, last.t, last.res, iter.it)

\* The iterator has passed pos pairs, which are all the pairs of the blocks
\* before some block that is not the first: it has yielded the last pair of
\* a block and not yet moved to the next block.
AtBlockEnd(pos) ==
    \E k \in 1..(get_block_count(history) - 1) :
        WToNat(get_value_index(get_block(history, k))) = pos

\* The same where every skip is below 2^56 and the iterator has not just
\* yielded the last pair of a block that another block follows.
SeekWithinBlockShortSkips ==
    (last.op = "seek" /\ ValidAppends /\ ShortSkips /\ BelowMax
        /\ ~AtBlockEnd(last.from))
        => /\ last.outcome = "ok"
           /\ SeekFromAnywhere(last.from, last.t, last.res, iter.it)

\* Such a seek after an earlier call that moved the iterator, to a target
\* in a later block.
SeekWithinBlockWitness ==
    /\ last.op = "seek" /\ ValidAppends /\ ShortSkips
    /\ last.from > 0 /\ ~AtBlockEnd(last.from)
    /\ last.outcome = "ok"
    /\ last.res.some
    /\ \E k \in 1..(get_block_count(history) - 1) :
          /\ WToNat(get_value_index(get_block(history, k))) > last.from
          /\ WToNat(get_value_index(get_block(history, k)))
                 <= WToNat(last.res.val.value_index)

\* C28: on a history to which no change has been appended, iteration
\* yields no pair and search_timestamp_index returns None for every t and
\* every mode; neither operation fails.
C28_EmptyHistory ==
    (appended = <<>> /\ history = NewHistory)
        => /\ last.op = "search" => (last.outcome = "ok" /\ last.res = None)
           /\ last.op = "collect" => (last.outcome = "ok" /\ last.res = <<>>)
           /\ last.op = "into_iter" => last.outcome = "ok"

\* Block k starts with a change byte after its header, and the first pair
\* decoded from it is its header, in every build.
BlockStartsWithHeader(h, k) ==
    /\ get_block(h, k)[HEADER_SIZE + 1] >= 128
    /\ \A overflow_checks \in BOOLEAN :
          first_index(h, k, overflow_checks) = Some(get_index(get_block(h, k)))

\* Block k starts with a change byte after its header.
BlockStartsWithChangeByte(h, k) == get_block(h, k)[HEADER_SIZE + 1] >= 128

\* The write offset is in the token bytes of the last block, the byte
\* before it is a change byte and the bytes from it on are zero.
LastBlockTail(h) ==
    /\ h.block_index = get_block_count(h) - 1
    /\ HEADER_SIZE + 1 <= h.block_offset
    /\ h.block_offset <= BLOCK_SIZE
    /\ h.blocks[WriteIndex(h)] >= 128
    /\ \A j \in (WriteIndex(h) + 1)..Len(h.blocks) : h.blocks[j] = 0

WellFormed(h) ==
    /\ Len(h.blocks) = BLOCK_SIZE * (h.block_index + 1)
    /\ Len(h.blocks) = BLOCK_SIZE * get_block_count(h)
    /\ \A k \in 0..(get_block_count(h) - 1) : BlockStartsWithHeader(h, k)
    /\ LastBlockTail(h)

\* C29: after any sequence of valid add_change calls the length of the
\* block array is 512 times the number of blocks; in every block the byte
\* at offset 16 is a change byte and the first pair decoded from the block
\* is its header; in the last block 17 <= block_offset <= 512, the byte at
\* block_offset - 1 is a change byte and every byte from block_offset to the
\* end of the block is zero.
C29_WellFormed ==
    (Appended /\ ValidAppends) => WellFormed(history)

\* The same where no change is at usize::MAX.
WellFormedBelowMax ==
    (Appended /\ ValidAppends /\ BelowMax) => WellFormed(history)

\* The bytes are as C29 requires also with a change at usize::MAX.
WellFormedBytes ==
    (Appended /\ ValidAppends)
        => /\ Len(history.blocks) = BLOCK_SIZE * (history.block_index + 1)
           /\ Len(history.blocks) = BLOCK_SIZE * get_block_count(history)
           /\ \A k \in 0..(get_block_count(history) - 1) :
                  BlockStartsWithChangeByte(history, k)
           /\ LastBlockTail(history)

\* An append that opened a second block after more than 100 changes.
WellFormedWitness ==
    /\ last.op = "add_change" /\ last.outcome = "ok" /\ ValidAppends
    /\ get_block_count(history) >= 2
    /\ history.block_offset = HEADER_SIZE + 1
    /\ Len(appended) > 100

\* Appends that left the only block without a free byte.
FullBlockWitness ==
    /\ Appended /\ ValidAppends
    /\ get_block_count(history) = 1
    /\ history.block_offset = BLOCK_SIZE

\* Every byte of old is in new as it was, but for the change byte before
\* the write offset, which may be one more, and the bytes of the last block
\* from the write offset on.
BytesAppendOnly(old, new) ==
    /\ Len(old.blocks) <= Len(new.blocks)
    /\ \A j \in 1..Len(old.blocks) :
          \/ new.blocks[j] = old.blocks[j]
          \/ j = WriteIndex(old) /\ new.blocks[j] = old.blocks[j] + 1
          \/ j > WriteIndex(old)

IsPrefix(a, b) == Len(a) <= Len(b) /\ SubSeq(b, 1, Len(a)) = a

\* C30: add_change leaves every block but the last byte for byte as it
\* was, never rewrites a header, and in the last block changes only the
\* change byte at block_offset - 1, by incrementing it, or bytes at offsets
\* >= block_offset; the sequence of pairs decoded before the append is a
\* prefix of the sequence decoded after it.
\* The pairs decoded from old are a prefix of those decoded from new.
DecodedPrefix(old, new, overflow_checks) ==
    /\ DecodedAll(old, overflow_checks) # Panic
    /\ DecodedAll(new, overflow_checks) # Panic
    /\ IsPrefix(DecodedAll(old, overflow_checks).res,
                DecodedAll(new, overflow_checks).res)

C30_AppendOnly ==
    last.op = "add_change"
        => /\ BytesAppendOnly(last.old, history)
           /\ \A overflow_checks \in BOOLEAN :
                  DecodedPrefix(last.old, history, overflow_checks)

\* The same where no change is at usize::MAX.
AppendOnlyBelowMax ==
    (last.op = "add_change" /\ BelowMax)
        => /\ BytesAppendOnly(last.old, history)
           /\ \A overflow_checks \in BOOLEAN :
                  DecodedPrefix(last.old, history, overflow_checks)

\* The bytes are append-only also with a change at usize::MAX.
AppendOnlyBytes ==
    last.op = "add_change" => BytesAppendOnly(last.old, history)

\* An append that incremented the last change byte of a block with more
\* than 100 changes before it.
AppendOnlyWitness ==
    /\ last.op = "add_change" /\ last.outcome = "ok"
    /\ Len(appended) > 100
    /\ history.blocks[WriteIndex(last.old)]
           = last.old.blocks[WriteIndex(last.old)] + 1
    /\ DecodedAll(history, TRUE) # Panic
    /\ Len(DecodedAll(history, TRUE).res) =
           Len(DecodedAll(last.old, TRUE).res) + 1

\* last is to_string_radix(Binary) on a vector as from_ascii or
\* from_ascii_four_state returned it.
PrintedAscii ==
    /\ blast.op = "to_string_radix" /\ blast.radix = "Binary" /\ blast.fresh
    /\ origin.constructor \in {"from_ascii", "from_ascii_four_state"}

\* The character C21 gives for a byte: x and z in upper case, and for the
\* four-state constructor 0 for a byte that is none of 0, 1, X, x, Z, z.
AsciiCharAsStated(byte, four_state) ==
    CASE byte = "x" -> "X"
      [] byte = "z" -> "Z"
      [] four_state /\ byte \notin {"0", "1", "X", "x", "Z", "z"} -> "0"
      [] OTHER -> byte

\* The character the constructors give for a byte: from_ascii 1 for the
\* byte 1 and 0 for any other byte, from_ascii_four_state as stated.
AsciiChar(byte, four_state) ==
    IF four_state THEN AsciiCharAsStated(byte, TRUE)
    ELSE IF byte = "1" THEN "1" ELSE "0"

\* The Logic that is printed as a character.
LogicOfChar(char) ==
    CASE char = "0" -> "Zero"
      [] char = "1" -> "One"
      [] char = "X" -> "Unknown"
      [] char = "Z" -> "HighImpedance"

\* C21 as stated: from_ascii(s) and from_ascii_four_state(s) build a vector
\* of width len(s) with byte 0 as the most significant bit, and
\* to_string_radix(Binary) returns "b" and s with x/z mapped to X/Z and,
\* for the four-state constructor, any byte other than 0, 1, X, x, Z, z
\* mapped to 0.
AsciiRoundTripAsStated ==
    PrintedAscii
        => /\ bitvec.bit_width = Len(origin.bytes)
           /\ blast.res = <<"b">> \o
                 [i \in 1..Len(origin.bytes) |->
                     AsciiCharAsStated(origin.bytes[i], bitvec.four_state)]

\* C21: from_ascii(s) and from_ascii_four_state(s) build a vector of width
\* len(s) in which byte index 0 is the most significant bit, and
\* to_string_radix(Binary) returns "b" followed by s after mapping, for
\* from_ascii, every byte other than 1 to 0 and, for from_ascii_four_state,
\* x/z to X/Z and any byte other than 0, 1, X, x, Z, z to 0; for inline and
\* for heap-backed widths.
C21_AsciiRoundTrip ==
    PrintedAscii
        => /\ bitvec.bit_width = Len(origin.bytes)
           /\ bitvec.four_state = (origin.constructor = "from_ascii_four_state")
           /\ \A i \in 1..Len(origin.bytes) :
                 get_bit(deref(heap, bitvec), Len(origin.bytes) - i) =
                     LogicOfChar(AsciiChar(origin.bytes[i], bitvec.four_state))
           /\ blast.res = <<"b">> \o
                 [i \in 1..Len(origin.bytes) |->
                     AsciiChar(origin.bytes[i], bitvec.four_state)]

\* A heap-backed four-state vector made from a string with an X, a Z and a
\* byte that is no Logic character, printed.
C21_Witness ==
    /\ PrintedAscii
    /\ origin.constructor = "from_ascii_four_state"
    /\ bitvec.pointer
    /\ Len(origin.bytes) > WordBits
    /\ \E i \in 1..Len(origin.bytes) :
          origin.bytes[i] = "2" /\ blast.res[i + 1] = "0"
    /\ \E i \in 1..Len(origin.bytes) :
          origin.bytes[i] = "X" /\ blast.res[i + 1] = "X"
    /\ \E i \in 1..Len(origin.bytes) :
          origin.bytes[i] = "Z" /\ blast.res[i + 1] = "Z"

\* An inline two-state vector and a lower-case string, printed.
AsciiInlineWitness ==
    /\ PrintedAscii
    /\ origin.constructor = "from_ascii"
    /\ ~bitvec.pointer
    /\ Len(origin.bytes) = WordBits
    /\ blast.res[2] = "1"
AsciiLowerCaseWitness ==
    /\ PrintedAscii
    /\ origin.constructor = "from_ascii_four_state"
    /\ Len(origin.bytes) = HalfWordBits
    /\ origin.bytes[1] = "z" /\ blast.res[2] = "Z"
    /\ origin.bytes[2] = "x" /\ blast.res[3] = "X"

\* last is to_string_radix(Decimal).
PrintedDecimal == blast.op = "to_string_radix" /\ blast.radix = "Decimal"

Overflow == <<"O", "V", "E", "R", "F", "L", "O", "W", "!">>

DecimalDigits == <<"0", "1", "2", "3", "4", "5", "6", "7", "8", "9">>
IsDecimalDigit(char) == \E k \in 1..10 : DecimalDigits[k] = char
DecimalDigitValue(char) == (CHOOSE k \in 1..10 : DecimalDigits[k] = char) - 1

\* a * 10 + d of a u64 given as limbs: [val, carry], carry # 0 if the
\* result is 2^64 or more.
WMul10Add(a, d) ==
    LET x4 == a[4] * 10 + d
        x3 == a[3] * 10 + x4 \div LimbBase
        x2 == a[2] * 10 + x3 \div LimbBase
        x1 == a[1] * 10 + x2 \div LimbBase
    IN  [val |-> <<x1 % LimbBase, x2 % LimbBase, x3 % LimbBase, x4 % LimbBase>>,
         carry |-> x1 \div LimbBase]

\* The number that the decimal digits from the k-th on spell after the
\* number acc.val, as limbs, and whether it is below 2^64.
RECURSIVE ParseDecimalFrom(_, _, _)
ParseDecimalFrom(digits, k, acc) ==
    IF k > Len(digits) \/ ~acc.ok THEN acc
    ELSE ParseDecimalFrom(digits, k + 1,
             [val |-> WMul10Add(acc.val, DecimalDigitValue(digits[k])).val,
              ok |-> WMul10Add(acc.val, DecimalDigitValue(digits[k])).carry = 0])

ParseDecimal(digits) == ParseDecimalFrom(digits, 1, [val |-> WZero, ok |-> TRUE])

\* digits is the decimal numeral of the u64 a: digits only, no leading zero
\* but for "0" itself, spelling a.
IsDecimalOf(digits, a) ==
    /\ Len(digits) >= 1
    /\ \A k \in 1..Len(digits) : IsDecimalDigit(digits[k])
    /\ Len(digits) > 1 => digits[1] # "0"
    /\ ParseDecimal(digits).ok
    /\ ParseDecimal(digits).val = a

\* The bits of bv that are One, as the limbs of a u64, for a width of at
\* most 64.
UnsignedValue(bv) ==
    ULimbs([k \in 1..WordBits |->
               IF k <= bv.bit_width /\ get_bit(bv, k - 1) = "One"
               THEN 1 ELSE 0])

Masked(bv) ==
    {i \in 0..(bv.bit_width - 1) :
        get_bit(bv, i) \in {"Unknown", "HighImpedance"}}

\* What C22 gives for a vector that does not overflow: Z or X if a mask
\* bit is set, the decimal numeral if not.
DecimalOfWord(bv, res) ==
    /\ Len(res) >= 2
    /\ res[1] = "d"
    /\ IF bv.four_state /\ Masked(bv) # {}
       THEN res = IF \A i \in Masked(bv) : get_bit(bv, i) = "HighImpedance"
                  THEN <<"d", "Z">> ELSE <<"d", "X">>
       ELSE IsDecimalOf(Tail(res), UnsignedValue(bv))

\* C22: to_string_radix(Decimal) prints "d" and OVERFLOW! if and only if
\* bit_width is greater than 64; for every other vector, a four-state
\* vector with a mask bit set prints Z when every masked bit is
\* HighImpedance and X otherwise, and a vector with no mask bit set prints
\* its unsigned decimal integer.
C22_Decimal ==
    PrintedDecimal
        => IF bitvec.bit_width > WordBits
           THEN blast.res = <<"d">> \o Overflow
           ELSE DecimalOfWord(deref(heap, bitvec), blast.res)

\* The same where OVERFLOW! is printed for the heap-backed vectors, two-state
\* above 64 bits and four-state above 32, and where the vector has no
\* storage bit set at or above its width.
DecimalInlineClean ==
    (PrintedDecimal /\ Clean(deref(heap, bitvec)))
        => IF bitvec.pointer
           THEN blast.res = <<"d">> \o Overflow
           ELSE DecimalOfWord(deref(heap, bitvec), blast.res)

\* The decimal numeral of a 64-bit value with its top bit set, a Z, an X
\* and an OVERFLOW! are printed.
DecimalWideWitness ==
    /\ PrintedDecimal /\ Clean(deref(heap, bitvec))
    /\ ~bitvec.four_state /\ bitvec.bit_width = WordBits
    /\ Len(blast.res) = 21
DecimalMaskWitness ==
    /\ PrintedDecimal /\ Clean(deref(heap, bitvec))
    /\ blast.res = <<"d", "Z">>
    /\ bitvec.bit_width > 1
DecimalUnknownWitness ==
    /\ PrintedDecimal /\ Clean(deref(heap, bitvec))
    /\ blast.res = <<"d", "X">>
    /\ \E i \in Masked(deref(heap, bitvec)) :
          get_bit(deref(heap, bitvec), i) = "HighImpedance"
DecimalOverflowWitness ==
    /\ PrintedDecimal /\ Clean(deref(heap, bitvec))
    /\ blast.res = <<"d">> \o Overflow
    /\ bitvec.bit_width > WordBits

\* The result of the last search_timestamp_index of the signal history is
\* the pair at the position returned, or None.
SignalSearched == last.op = "search_signal"

SignalFound ==
    IF last.res.some THEN Some(last.res.val.index) ELSE None

\* C27: WaveformSignalHistory.search_timestamp_index(t) returns the position
\* of the change with the greatest timestamp index <= t, with its value
\* index, and None when t precedes the first change, for every history
\* built by update_block calls with increasing timestamp indices.
C27_SignalSearchBefore ==
    (SignalSearched /\ ValidAppends) =>
        SignalFound = RefBefore(appended, last.t)

\* Every block of the history holds one change byte and nothing after it:
\* the changes of a block are consecutive and at most 128.
OneChangeByte(h) ==
    \A k \in 0..(WaveformSignalHistory_get_block_count(h) - 1) :
        h.blocks[k * BLOCK_SIZE + 18] = 0

\* The search is right on blocks of one change byte.
SignalSearchOneChangeByte ==
    (SignalSearched /\ ValidAppends /\ OneChangeByte(history)) =>
        SignalFound = RefBefore(appended, last.t)

\* Such a search has found a change after the first one.
SignalSearchOneChangeByteWitness ==
    /\ SignalSearched /\ ValidAppends /\ OneChangeByte(history)
    /\ last.res.some
    /\ last.res.val.index.value_index # WZero
====
